---- MODULE Spec2Model ----
(***************************************************************************)
(* Model of the INCIDecoder scraper: the persistence layer                 *)
(* (incidecoder_scraper/storage.py, class DataStore) and, from             *)
(* incidecoder_scraper/scraper.py, the coordinator loop                    *)
(* (IncidecoderScraper.scrape), the ingredient handling of                 *)
(* ProductHTMLParser, url discovery (discover_product_urls), the retry     *)
(* and throttle of HttpClient.fetch, and ProductHTMLParser.parse on the    *)
(* tag and text events of a page.                                          *)
(*                                                                         *)
(* Encoding of Python / SQL values                                         *)
(*   None / NULL        the empty tuple <<>>           (None)              *)
(*   a present value v  the one-element tuple <<v>>    (Some(v))           *)
(*   list               a sequence                                         *)
(*   dict               a set of <<key, value>> pairs                      *)
(*   json.dumps(v)      the text [json |-> v]                              *)
(*   datetime           a natural number; its isoformat() text [iso |-> n] *)
(***************************************************************************)
EXTENDS Integers, Sequences, FiniteSets, TLC

VARIABLES
    stores,     \* backend name -> database seen through DataStore.conn, for
                \* every backend the run drives (one, or both side by side)
    last,       \* the DataStore call made by the latest step: its name, its
                \* argument, per backend whether it raised, and what the
                \* database looked like when it was made
    queued,     \* urls handed to add_products_for_brand so far
    saveCalled, \* urls handed to save_product so far
    marked,     \* urls whose row was targeted by mark_product_scraped so far
    scrape,     \* the run of IncidecoderScraper.scrape in progress
    parser,     \* the ProductHTMLParser and the parse call in progress
    discover,   \* the run of discover_product_urls in progress
    http,       \* the HttpClient and the fetch call in progress
    extractor,  \* the ProductHTMLParser fed the markup of a page, tag by tag
    images      \* the IncidecoderScraper asked for the images of products

vars == <<stores, last, queued, saveCalled, marked, scrape, parser, discover, http, extractor,
         images>>

---------------------------------------------------------------------------
(* Bounds and input domains *)

MaxBatch == 2
MaxIngredients == 2
MaxRuns == 2
MaxLimit == 1

Backends == {"duckdb", "sqlite"}
Urls == {"u1", "u2"}
BrandUrls == {"b1", "b2"}
BrandNames == {"bA", "bB"}
ProductNames == {"n1", "n2"}
Timestamps == {1, 2}

None == <<>>
Some(v) == <<v>>

---------------------------------------------------------------------------
(* Python and SQL primitives *)

\* bool(x) of an Optional[str]: None and "" are falsy
StrTruthy(o) == o # None /\ o[1] # ""

\* bool(x) of an Optional[dict] / Optional[list]
DictTruthy(o) == o # None /\ o[1] # {}

\* bool(x) of an int
IntTruthy(n) == n # 0

\* json.dumps / json.loads
Dumps(v) == [json |-> v]
Loads(t) == t.json

\* SQL COALESCE(a, b)
Coalesce(a, b) == IF a # None THEN a ELSE b

\* datetime.isoformat(), used by the sqlite branches only
IsoFormat(ts) == [iso |-> ts]

\* the value bound to a timestamp column
TsParam(backend, ts) == IF backend = "duckdb" THEN ts ELSE IsoFormat(ts)

\* sort key of a stored timestamp (TIMESTAMP order = ISO-8601 text order)
TsKey(backend, v) == IF backend = "duckdb" THEN v ELSE v.iso

EmptyDB == [brands |-> <<>>, products |-> <<>>, ingredients |-> {}]

---------------------------------------------------------------------------
(* Row lookup helpers (the SELECT ... WHERE statements) *)

\* SELECT id FROM products WHERE url = ? LIMIT 1   (0 when there is no row)
ProductIdByUrl(db, url) ==
    IF \E i \in DOMAIN db.products : db.products[i].url = url
    THEN CHOOSE i \in DOMAIN db.products : db.products[i].url = url
    ELSE 0

\* SELECT id, name FROM brands WHERE url = ? LIMIT 1   (0 when there is no row)
BrandIdByUrl(db, url) ==
    IF \E i \in DOMAIN db.brands : db.brands[i].url = url
    THEN CHOOSE i \in DOMAIN db.brands : db.brands[i].url = url
    ELSE 0

\* FOREIGN KEY (brand_id) REFERENCES brands(id): enforced by DuckDB, while
\* sqlite3 connections leave foreign_keys off, so SQLite accepts any value
ForeignKeyOk(backend, db, brand_id) ==
    \/ backend = "sqlite"
    \/ brand_id = None
    \/ brand_id[1] \in DOMAIN db.brands

get_brand_name(db, brand_id) ==
    IF brand_id \in DOMAIN db.brands THEN Some(db.brands[brand_id].name) ELSE None

---------------------------------------------------------------------------
(* DataStore read operations *)

\* has_product without the completion marker: any row for the url counts
has_product_AnyRow(db, url) ==
    \E i \in DOMAIN db.products : db.products[i].url = url

has_product(db, url) ==
    \E i \in DOMAIN db.products :
        db.products[i].url = url /\ db.products[i].scraped_at # None

RECURSIVE PendingFrom(_, _)
PendingFrom(db, i) ==
    IF i > Len(db.brands) THEN <<>>
    ELSE LET b == db.brands[i]
         IN (IF b.processed_at = None THEN << <<b.id, b.name, b.url>> >> ELSE <<>>)
            \o PendingFrom(db, i + 1)

\* the pending brands in descending id order
iter_pending_brands_Descending(db) ==
    LET rows == PendingFrom(db, 1)
    IN [k \in DOMAIN rows |-> rows[Len(rows) + 1 - k]]

\* ... WHERE processed_at IS NULL ORDER BY id
iter_pending_brands(db) == PendingFrom(db, 1)

\* ORDER BY discovered_at, id
ScrapeOrderBefore(backend, r1, r2) ==
    LET k1 == TsKey(backend, r1.discovered_at[1])
        k2 == TsKey(backend, r2.discovered_at[1])
    IN k1 < k2 \/ (k1 = k2 /\ r1.id < r2.id)

RECURSIVE OrderedRows(_, _, _)
OrderedRows(backend, db, ids) ==
    IF ids = {} THEN <<>>
    ELSE LET first == CHOOSE i \in ids :
                 \A j \in ids \ {i} :
                     ScrapeOrderBefore(backend, db.products[i], db.products[j])
             r == db.products[first]
         IN << <<r.id, r.url, r.name, r.brand_name>> >>
            \o OrderedRows(backend, db, ids \ {first})

iter_products_to_scrape(backend, db, resume) ==
    OrderedRows(backend, db,
        {i \in DOMAIN db.products : (~resume) \/ db.products[i].scraped_at = None})

\* Ingredient(name=name, url=url, extra=json.loads(extra) if extra else {});
\* no ORDER BY, so the rows of one product come back as a set
load_ingredients(db, product_id) ==
    {[name |-> r.ingredient_name, url |-> r.ingredient_url,
      extra |-> IF r.extra # None THEN Loads(r.extra[1]) ELSE {}] :
        r \in {x \in db.ingredients : x.product_id = product_id}}

\* the Product dataclass: fields not passed to the constructor take their
\* defaults (materials, functions, highlights, raw_brand_links are lists)
LoadedProduct(db, r) ==
    [url |-> r.url, name |-> r.name, brand |-> r.brand_name,
     description |-> r.description, image_url |-> r.image_url,
     rating_value |-> r.rating_value, rating_count |-> r.rating_count,
     categories |-> IF r.categories # None THEN Loads(r.categories[1]) ELSE <<>>,
     json_ld |-> IF r.json_ld # None THEN Some(Loads(r.json_ld[1])) ELSE None,
     ingredients |-> load_ingredients(db, r.id),
     materials |-> <<>>, functions |-> <<>>, highlights |-> <<>>,
     raw_brand_links |-> <<>>]

\* SELECT ... FROM products WHERE scraped_at IS NOT NULL (no ORDER BY)
iter_products(db) ==
    {LoadedProduct(db, db.products[i]) :
        i \in {j \in DOMAIN db.products : db.products[j].scraped_at # None}}

---------------------------------------------------------------------------
(* DataStore write operations.  Each returns [db, raised]: the database the *)
(* connection sees afterwards and whether the call raised.                  *)

\* brands is a sequence of <<name, url>>; the loop body of add_brands
RECURSIVE AddBrandsLoop(_, _, _, _, _)
AddBrandsLoop(backend, db, brands, k, ts) ==
    IF k > Len(brands) THEN db
    ELSE LET name == brands[k][1]
             url == brands[k][2]
             brand_id == BrandIdByUrl(db, url)
             updated ==
                 IF name # "" /\ db.brands[brand_id].name # name
                 THEN [db EXCEPT !.brands[brand_id].name = name]
                 ELSE db
             inserted ==
                 [db EXCEPT !.brands = Append(@,
                     [id |-> Len(db.brands) + 1, name |-> name, url |-> url,
                      discovered_at |-> Some(TsParam(backend, ts)),
                      processed_at |-> None])]
         IN AddBrandsLoop(backend,
                          IF brand_id # 0 THEN updated ELSE inserted,
                          brands, k + 1, ts)

add_brands(backend, db, brands, ts) ==
    IF brands = <<>> THEN [db |-> db, raised |-> FALSE]
    ELSE [db |-> AddBrandsLoop(backend, db, brands, 1, ts), raised |-> FALSE]

\* a reset that also clears the completion marker of every product
reset_brand_processing_AndProducts(db) ==
    [db |-> [db EXCEPT
                !.brands =
                    [i \in DOMAIN db.brands |-> [db.brands[i] EXCEPT !.processed_at = None]],
                !.products =
                    [i \in DOMAIN db.products |-> [db.products[i] EXCEPT !.scraped_at = None]]],
     raised |-> FALSE]

reset_brand_processing(db) ==
    [db |-> [db EXCEPT !.brands =
                [i \in DOMAIN db.brands |-> [db.brands[i] EXCEPT !.processed_at = None]]],
     raised |-> FALSE]

mark_brand_processed(backend, db, brand_id, ts) ==
    [db |-> [db EXCEPT !.brands =
                [i \in DOMAIN db.brands |->
                    IF db.brands[i].id = brand_id
                    THEN [db.brands[i] EXCEPT !.processed_at = Some(TsParam(backend, ts))]
                    ELSE db.brands[i]]],
     raised |-> FALSE]

mark_product_scraped(backend, db, product_id, ts) ==
    [db |-> [db EXCEPT !.products =
                [i \in DOMAIN db.products |->
                    IF db.products[i].id = product_id
                    THEN [db.products[i] EXCEPT !.scraped_at = Some(TsParam(backend, ts))]
                    ELSE db.products[i]]],
     raised |-> FALSE]

\* products is a sequence of <<url, name>> with name an Optional[str]; the
\* loop body of add_products_for_brand.  Returns [db, raised]; the loop stops
\* at the first statement the engine rejects.
RECURSIVE AddProductsLoop(_, _, _, _, _, _, _)
AddProductsLoop(backend, db, brand_id, brand_name, products, k, ts) ==
    IF k > Len(products) THEN [db |-> db, raised |-> FALSE]
    ELSE LET url == products[k][1]
             name == products[k][2]
             product_id == ProductIdByUrl(db, url)
             existing_name == db.products[product_id].name
             update_name ==
                 IF StrTruthy(name) /\ ~StrTruthy(existing_name) THEN name ELSE None
             update_brand == IF StrTruthy(brand_name) THEN brand_name ELSE None
             doUpdate == update_name # None \/ update_brand # None \/ IntTruthy(brand_id)
             updated ==
                 [db EXCEPT !.products[product_id] =
                     [@ EXCEPT !.name = Coalesce(update_name, @),
                               !.brand_id = Coalesce(Some(brand_id), @),
                               !.brand_name = Coalesce(update_brand, @)]]
             inserted ==
                 [db EXCEPT !.products = Append(@,
                     [id |-> Len(db.products) + 1, brand_id |-> Some(brand_id),
                      url |-> url, name |-> name, brand_name |-> brand_name,
                      description |-> None, image_url |-> None,
                      rating_value |-> None, rating_count |-> None,
                      categories |-> None, json_ld |-> None,
                      discovered_at |-> Some(TsParam(backend, ts)),
                      scraped_at |-> None])]
             fkOk == ForeignKeyOk(backend, db, Some(brand_id))
         IN IF product_id # 0
            THEN IF ~doUpdate
                 THEN AddProductsLoop(backend, db, brand_id, brand_name, products, k + 1, ts)
                 ELSE IF fkOk
                      THEN AddProductsLoop(backend, updated, brand_id, brand_name,
                                           products, k + 1, ts)
                      ELSE [db |-> db, raised |-> TRUE]
            ELSE IF fkOk
                 THEN AddProductsLoop(backend, inserted, brand_id, brand_name,
                                      products, k + 1, ts)
                 ELSE [db |-> db, raised |-> TRUE]

add_products_for_brand(backend, db, brand_id, products, ts) ==
    IF products = <<>> THEN [db |-> db, raised |-> FALSE]
    ELSE LET r == AddProductsLoop(backend, db, brand_id,
                                  get_brand_name(db, brand_id), products, 1, ts)
         IN IF r.raised /\ backend = "duckdb"
            THEN [db |-> db, raised |-> TRUE]      \* except: ROLLBACK; raise
            ELSE r                                 \* sqlite: finally: cur.close()

\* the parameter rows built at the top of save_product:
\* (ingredient.url, ingredient.name, json.dumps(extra) if extra else None)
IngredientParams(product) ==
    [k \in DOMAIN product.ingredients |->
        LET ing == product.ingredients[k]
        IN [url |-> ing.url, name |-> ing.name,
            extra |-> IF ing.extra # {} THEN Some(Dumps(ing.extra)) ELSE None]]

\* executemany(INSERT INTO product_ingredients ...): one INSERT per row; the
\* PRIMARY KEY (product_id, ingredient_url, ingredient_name) rejects a row
\* whose key is already stored, and the rows inserted before it stay written
RECURSIVE InsertIngredients(_, _, _, _)
InsertIngredients(db, product_id, rows, k) ==
    IF k > Len(rows) THEN [db |-> db, raised |-> FALSE]
    ELSE LET row == [product_id |-> product_id, ingredient_url |-> rows[k].url,
                     ingredient_name |-> rows[k].name, extra |-> rows[k].extra]
             clash == \E x \in db.ingredients :
                         /\ x.product_id = row.product_id
                         /\ x.ingredient_url = row.ingredient_url
                         /\ x.ingredient_name = row.ingredient_name
         IN IF clash THEN [db |-> db, raised |-> TRUE]
            ELSE InsertIngredients([db EXCEPT !.ingredients = @ \cup {row}],
                                   product_id, rows, k + 1)

\* the UPDATE of save_product, also writing discovered_at = ?
UpdateProductRow_Rediscovered(backend, row, product, ts) ==
    [row EXCEPT !.name = Coalesce(product.name, @),
                !.brand_name = Coalesce(product.brand, @),
                !.description = product.description,
                !.image_url = product.image_url,
                !.rating_value = product.rating_value,
                !.rating_count = product.rating_count,
                !.categories = Some(Dumps(product.categories)),
                !.json_ld = IF DictTruthy(product.json_ld)
                            THEN Some(Dumps(product.json_ld[1])) ELSE None,
                !.discovered_at = Some(TsParam(backend, ts)),
                !.scraped_at = Some(TsParam(backend, ts))]

\* UPDATE products SET name = COALESCE(?, name), brand_name = COALESCE(?, brand_name),
\*   description = ?, ..., scraped_at = ? WHERE id = ?
UpdateProductRow(backend, row, product, ts) ==
    [row EXCEPT !.name = Coalesce(product.name, @),
                !.brand_name = Coalesce(product.brand, @),
                !.description = product.description,
                !.image_url = product.image_url,
                !.rating_value = product.rating_value,
                !.rating_count = product.rating_count,
                !.categories = Some(Dumps(product.categories)),
                !.json_ld = IF DictTruthy(product.json_ld)
                            THEN Some(Dumps(product.json_ld[1])) ELSE None,
                !.scraped_at = Some(TsParam(backend, ts))]

\* INSERT INTO products (url, name, brand_name, ..., discovered_at, scraped_at)
NewProductRow(backend, id, product, ts) ==
    [id |-> id, brand_id |-> None, url |-> product.url,
     name |-> product.name, brand_name |-> product.brand,
     description |-> product.description, image_url |-> product.image_url,
     rating_value |-> product.rating_value, rating_count |-> product.rating_count,
     categories |-> Some(Dumps(product.categories)),
     json_ld |-> IF DictTruthy(product.json_ld)
                 THEN Some(Dumps(product.json_ld[1])) ELSE None,
     discovered_at |-> Some(TsParam(backend, ts)),
     scraped_at |-> Some(TsParam(backend, ts))]

\* save_product as a plain INSERT: no lookup of an existing row
SaveStatements_InsertOnly(backend, db, product, ts) ==
    LET product_id == Len(db.products) + 1
        withRow ==
            [db EXCEPT !.products =
                Append(@, NewProductRow(backend, product_id, product, ts))]
        afterDelete ==
            [withRow EXCEPT !.ingredients = {x \in @ : x.product_id # product_id}]
    IN IF product.ingredients = <<>>
       THEN [db |-> afterDelete, raised |-> FALSE]
       ELSE InsertIngredients(afterDelete, product_id, IngredientParams(product), 1)

\* save_product without the DELETE FROM product_ingredients; the rows of the
\* url that are passed again are overwritten (INSERT OR REPLACE)
SaveStatements_NoDelete(backend, db, product, ts) ==
    LET found == ProductIdByUrl(db, product.url)
        product_id == IF found # 0 THEN found ELSE Len(db.products) + 1
        withRow ==
            IF found # 0
            THEN [db EXCEPT !.products[found] =
                     UpdateProductRow(backend, @, product, ts)]
            ELSE [db EXCEPT !.products =
                     Append(@, NewProductRow(backend, product_id, product, ts))]
        passed == {[url |-> r.url, name |-> r.name] :
                      r \in {IngredientParams(product)[k] : k \in DOMAIN product.ingredients}}
        kept ==
            [withRow EXCEPT !.ingredients =
                {x \in @ : \/ x.product_id # product_id
                           \/ [url |-> x.ingredient_url, name |-> x.ingredient_name]
                                  \notin passed}]
    IN IF product.ingredients = <<>>
       THEN [db |-> kept, raised |-> FALSE]
       ELSE InsertIngredients(kept, product_id, IngredientParams(product), 1)

\* the statements between BEGIN / cursor() and COMMIT, identical in both branches
SaveStatements(backend, db, product, ts) ==
    LET found == ProductIdByUrl(db, product.url)
        product_id == IF found # 0 THEN found ELSE Len(db.products) + 1
        withRow ==
            IF found # 0
            THEN [db EXCEPT !.products[found] =
                     UpdateProductRow(backend, @, product, ts)]
            ELSE [db EXCEPT !.products =
                     Append(@, NewProductRow(backend, product_id, product, ts))]
        afterDelete ==
            [withRow EXCEPT !.ingredients = {x \in @ : x.product_id # product_id}]
    IN IF product.ingredients = <<>>
       THEN [db |-> afterDelete, raised |-> FALSE]
       ELSE InsertIngredients(afterDelete, product_id, IngredientParams(product), 1)

\* duckdb: except Exception: ROLLBACK; raise.
\* sqlite: try: ... commit() finally: cur.close() -- no rollback, so what the
\* statements wrote before the failure stays in the connection's open
\* transaction, is seen by every later read on the connection and is
\* committed by the next commit()
save_product(backend, db, product, ts) ==
    LET r == SaveStatements(backend, db, product, ts)
    IN IF r.raised /\ backend = "duckdb"
       THEN [db |-> db, raised |-> TRUE]
       ELSE r

---------------------------------------------------------------------------
(* Inputs *)

RECURSIVE SeqsUpTo(_, _)
SeqsUpTo(S, n) ==
    IF n = 0 THEN {<<>>}
    ELSE LET shorter == SeqsUpTo(S, n - 1)
         IN shorter \cup {Append(q, x) : q \in {t \in shorter : Len(t) = n - 1}, x \in S}

Water == [name |-> "Water", url |-> "iW", extra |-> {<<"note", "solvent">>}]
Glycerin == [name |-> "Glycerin", url |-> "iG", extra |-> {}]

\* the scalar fields save_product writes with a plain "column = ?"
NoDetails ==
    [description |-> None, image_url |-> None, rating_value |-> None,
     rating_count |-> None, categories |-> <<>>, json_ld |-> None]
Details1 ==
    [description |-> Some("Demo"), image_url |-> Some("img1"),
     rating_value |-> Some(42), rating_count |-> Some(10),
     categories |-> <<"Serum">>,
     json_ld |-> Some({<<"@type", "Product">>, <<"name", "n1">>})]
Details2 ==
    [description |-> Some(""), image_url |-> Some("img2"),
     rating_value |-> Some(49), rating_count |-> Some(55),
     categories |-> <<"Serum", "Hydration">>,
     json_ld |-> Some({<<"@type", "ProductGroup">>})]

\* the list fields of Product that have no column
NoSections == [materials |-> <<>>, functions |-> <<>>, highlights |-> <<>>]
Sections1 ==
    [materials |-> <<"Glass">>,
     functions |-> << {<<"name", "Hydration">>} >>,
     highlights |-> << {<<"title", "Vegan">>} >>]

\* Product(url=..., name=..., ...)
Product(url, name, brand, d, ingredients, x) ==
    [url |-> url, name |-> name, brand |-> brand,
     description |-> d.description, image_url |-> d.image_url,
     rating_value |-> d.rating_value, rating_count |-> d.rating_count,
     categories |-> d.categories, json_ld |-> d.json_ld,
     ingredients |-> ingredients,
     materials |-> x.materials, functions |-> x.functions,
     highlights |-> x.highlights, raw_brand_links |-> <<>>]

Opt(S) == {None} \cup {Some(v) : v \in S}

\* products handed to save_product while the whole API is exercised
ApiProducts ==
    {Product(u, n, None, Details1, i, NoSections) :
        u \in Urls, n \in {None}, i \in SeqsUpTo({Water}, MaxIngredients)}

\* products handed to save_product when saves are studied field by field:
\* every combination of the scalar fields around one ingredient, and every
\* ingredient list around one set of scalar fields
SaveProducts ==
    {Product("u1", n, b, d, <<Water>>, x) :
        n \in Opt(ProductNames), b \in Opt({"bA"}),
        d \in {NoDetails, Details1, Details2}, x \in {NoSections, Sections1}}
    \cup
    {Product("u1", n, None, Details1, i, NoSections) :
        n \in Opt({"n1"}), i \in SeqsUpTo({Water, Glycerin}, MaxIngredients)}

ApiBrandBatches == SeqsUpTo({"bA"} \X {"b1"}, MaxBatch)
ApiProductBatches == SeqsUpTo(Urls \X {None}, MaxBatch)
ApiBrandIds == {1}
ApiTimestamps == {1}
ProductIds == 1..Cardinality(Urls)

---------------------------------------------------------------------------
(* The DataStore driven through its API.  A run drives one store, on the   *)
(* backend DataStore.__init__ selected, or a DuckDB-backed and a           *)
(* SQLite-backed store side by side with the same calls made on both.      *)

Driven == DOMAIN stores

NoFlags == [b \in Driven |-> FALSE]

\* what a step records about the call it made
Called(op, arg, r, fresh, again, stale) ==
    [op |-> op, arg |-> arg,
     raised |-> [b \in Driven |-> r[b].raised],
     fresh |-> fresh,     \* the database was empty when the call was made
     again |-> again,     \* the call before was a successful save of the same url
     stale |-> stale]     \* ingredient rows of the url that the call does not pass

NoCall ==
    [op |-> "none", arg |-> <<>>, raised |-> [b \in Backends |-> FALSE],
     fresh |-> [b \in Backends |-> FALSE], again |-> [b \in Backends |-> FALSE],
     stale |-> [b \in Backends |-> FALSE]]

Call(op, arg, r) ==
    /\ stores' = [b \in Driven |-> r[b].db]
    /\ last' = Called(op, arg, r, NoFlags, NoFlags, NoFlags)

AddBrands(brands, ts) ==
    /\ Call("add_brands", <<>>, [b \in Driven |-> add_brands(b, stores[b], brands, ts)])
    /\ UNCHANGED <<queued, saveCalled, marked, scrape, parser, discover, http, extractor, images>>

\* the store of the run (the first, when two are driven side by side)
TheDriven == stores[CHOOSE b \in Driven : TRUE]

\* the ids of the brands that are marked processed
ProcessedIds(db) ==
    {db.brands[i].id : i \in {j \in DOMAIN db.brands : db.brands[j].processed_at # None}}

\* reset_brand_processing(); the call records which brands were marked
ResetBrandProcessing ==
    /\ Call("reset_brand_processing", ProcessedIds(TheDriven),
            [b \in Driven |-> reset_brand_processing(stores[b])])
    /\ UNCHANGED <<queued, saveCalled, marked, scrape, parser, discover, http, extractor, images>>

MarkBrandProcessed(brand_id, ts) ==
    /\ Call("mark_brand_processed", <<>>,
            [b \in Driven |-> mark_brand_processed(b, stores[b], brand_id, ts)])
    /\ UNCHANGED <<queued, saveCalled, marked, scrape, parser, discover, http, extractor, images>>

\* brand_id is an id that iter_pending_brands yielded
AddProductsForBrand(brand_id, products, ts) ==
    /\ \A b \in Driven : brand_id \in DOMAIN stores[b].brands
    /\ Call("add_products_for_brand", products,
            [b \in Driven |-> add_products_for_brand(b, stores[b], brand_id, products, ts)])
    /\ queued' = queued \cup {products[k][1] : k \in DOMAIN products}
    /\ UNCHANGED <<saveCalled, marked, scrape, parser, discover, http, extractor, images>>

MarkProductScraped(product_id, ts) ==
    /\ Call("mark_product_scraped", <<>>,
            [b \in Driven |-> mark_product_scraped(b, stores[b], product_id, ts)])
    /\ marked' = [b \in Driven |->
                     marked[b] \cup {stores[b].products[i].url :
                         i \in {j \in DOMAIN stores[b].products : j = product_id}}]
    /\ UNCHANGED <<queued, saveCalled, scrape, parser, discover, http, extractor, images>>

\* the ingredients a Product carries, as a set
IngredientSet(product) == {product.ingredients[k] : k \in DOMAIN product.ingredients}

\* store.save_product(product), from any caller
SaveCall(product, ts) ==
    LET r == [b \in Driven |-> save_product(b, stores[b], product, ts)]
    IN /\ stores' = [b \in Driven |-> r[b].db]
       /\ last' = Called("save_product", product, r,
              [b \in Driven |-> stores[b] = EmptyDB],
              [b \in Driven |-> /\ last.op = "save_product"
                                /\ ~last.raised[b]
                                /\ last.arg.url = product.url],
              [b \in Driven |->
                  load_ingredients(stores[b], ProductIdByUrl(stores[b], product.url))
                      \ IngredientSet(product) # {}])
       /\ saveCalled' = saveCalled \cup {product.url}
       /\ UNCHANGED <<queued, marked, parser, discover, http, extractor, images>>

SaveProduct(product, ts) == SaveCall(product, ts) /\ UNCHANGED scrape

\* ProductHTMLParser.__init__ -> _reset_state: no ingredient registered, no
\* ingredient block open; what parse returned is kept in product
ParserReset ==
    [pc |-> "feed", ingredients |-> <<>>, stack |-> <<>>, tags |-> 0,
     product |-> <<>>, folds |-> <<>>, keys |-> <<>>]

\* no generator of discover_product_urls exists yet
NotDiscovering ==
    [pc |-> "idle", strategy |-> "auto", running |-> "none", pending |-> <<>>,
     emitted |-> {},
     \* _discover_from_sitemaps
     sitemaps |-> <<>>, si |-> 1,
     \* _discover_from_brands
     token |-> 1, page |-> 1, visited_brands |-> {}, brand_links |-> <<>>, bi |-> 1,
     \* _discover_products_for_brand
     brand_url |-> <<>>, seen_pages |-> {}, queue |-> <<>>,
     \* the fetch made by the latest step and what it made the run yield
     fetch |-> [kind |-> "none"],
     \* history of the run: what each child sitemap answered and what the
     \* sitemap generator yielded, the urls yielded so far, the brands
     \* crawled and the listing pages fetched in the crawl in progress, and
     \* whether some step did what the run is not expected to do twice
     answers |-> {}, out |-> <<>>, yielded |-> {}, crawled |-> {}, fetched |-> {},
     yieldedAgain |-> FALSE, crawledAgain |-> FALSE, fetchedAgain |-> FALSE,
     droppedBy |-> {}, seenAgain |-> FALSE, emptyPages |-> 0,
     indexFailed |-> FALSE, childFetched |-> FALSE, sitemapYielded |-> FALSE,
     brandFetched |-> FALSE, brandYielded |-> FALSE]

\* ProductHTMLParser._reset_state; cdata_elem is the HTMLParser's own field
\* (set by set_cdata_mode after <script> and <style>), which _reset_state
\* does not touch and HTMLParser.__init__ sets to None
ResetState(cdata_elem) ==
    [cdata_elem |-> cdata_elem,
     in_h1 |-> FALSE, current_text |-> <<>>,
     json_ld_blocks |-> <<>>, in_json_ld |-> FALSE, json_buffer |-> <<>>,
     meta |-> {}, brand_links |-> {},
     current_link_type |-> "", current_link_href |-> "",
     link_text_buffer |-> <<>>, link_href_stack |-> <<>>,
     ingredients |-> <<>>, title |-> None,
     detailpage_depth |-> 0,
     description_depth |-> 0, description_buffer |-> <<>>,
     detail_description |-> None,
     materials_depth |-> 0, current_material_item_depth |-> 0,
     current_material_text |-> <<>>, material_entries |-> <<>>,
     function_context_stack |-> <<>>, function_entries |-> <<>>,
     highlight_context_stack |-> <<>>, highlight_entries |-> <<>>,
     ingredient_context_stack |-> <<>>]


\* no page was parsed yet; x is the instance that is reused, y a new
\* instance given the same markup, out and ref what parse returns on each,
\* open the open elements of the markup, outside the regions opened with no
\* detail root element open, plain whether only plain markup was fed
NoPage ==
    [pc |-> "idle", parses |-> 0, n |-> 0, url |-> "",
     x |-> ResetState(None), y |-> ResetState(None),
     out |-> None, ref |-> None, open |-> <<>>, outside |-> {}, plain |-> TRUE]

\* no HttpClient has been constructed yet
NoClient ==
    [pc |-> "none", throttle_seconds |-> 0, jitter |-> 0, max_retries |-> 0,
     \* time.monotonic() - self._last_request_time, as far as it matters
     elapsed |-> 0,
     \* fetch: its url, the attempt counter, what the latest network call
     \* got, and how the call ended
     url |-> <<>>, attempt |-> 0, response |-> <<>>, result |-> <<>>,
     \* history: the backoff waits of the call in order, its network calls,
     \* the time since the latest network call of the client, and for the
     \* latest network call the time since the one before it and the target
     \* interval drawn for it
     waits |-> <<>>, calls |-> 0, sinceCall |-> <<>>, gap |-> <<>>,
     target |-> 0]

NoScrape ==
    [pc |-> "idle", urls |-> <<>>, pos |-> 1, count |-> 0, limit |-> None,
     resume |-> TRUE, fetched |-> <<>>, saves |-> 0, saved |-> {}, n |-> 0,
     prev |-> [urls |-> <<>>, saved |-> {}]]

\* DataStore(path) on a new file: self.backend = "duckdb" if duckdb else "sqlite"
\* no IncidecoderScraper has been made
NoScraper ==
    [pc |-> "none", keywords |-> {}, calls |-> <<>>, files |-> {}, requests |-> <<>>]

Init ==
    /\ \E backend \in Backends : stores = [b \in {backend} |-> EmptyDB]
    /\ last = NoCall
    /\ queued = {}
    /\ saveCalled = {}
    /\ marked = [b \in Backends |-> {}]
    /\ scrape = NoScrape
    /\ parser = ParserReset
    /\ discover = NotDiscovering
    /\ http = NoClient
    /\ extractor = NoPage
    /\ images = NoScraper

\* one store per backend, both on new files
InitBoth ==
    /\ stores = [b \in Backends |-> EmptyDB]
    /\ last = NoCall
    /\ queued = {}
    /\ saveCalled = {}
    /\ marked = [b \in Backends |-> {}]
    /\ scrape = NoScrape
    /\ parser = ParserReset
    /\ discover = NotDiscovering
    /\ http = NoClient
    /\ extractor = NoPage
    /\ images = NoScraper

Next ==
    \/ \E brands \in ApiBrandBatches, ts \in ApiTimestamps : AddBrands(brands, ts)
    \/ ResetBrandProcessing
    \/ \E brand_id \in ApiBrandIds, ts \in ApiTimestamps :
           MarkBrandProcessed(brand_id, ts)
    \/ \E brand_id \in ApiBrandIds, products \in ApiProductBatches, ts \in ApiTimestamps :
           AddProductsForBrand(brand_id, products, ts)
    \/ \E product_id \in ProductIds, ts \in ApiTimestamps :
           MarkProductScraped(product_id, ts)
    \/ \E product \in ApiProducts, ts \in ApiTimestamps : SaveProduct(product, ts)

Spec == Init /\ [][Next]_vars

\* the same calls made on both backends
SpecBoth == InitBoth /\ [][Next]_vars

\* save_product called over and over on one url with every kind of Product
NextSave == \E product \in SaveProducts, ts \in ApiTimestamps : SaveProduct(product, ts)

SpecSave == InitBoth /\ [][NextSave]_vars

---------------------------------------------------------------------------
(* IncidecoderScraper.scrape: one step per iteration of its for loop.      *)
(* scrape.urls is what discover_product_urls yields in this run (distinct  *)
(* urls), scrape.pos the next one to be yielded.                           *)

RECURSIVE DistinctSeqs(_)
DistinctSeqs(S) ==
    {<<>>} \cup UNION {{<<x>> \o q : q \in DistinctSeqs(S \ {x})} : x \in S}

Limits == Opt(0..MaxLimit)

\* the store of the run
TheStore == stores[CHOOSE b \in Driven : TRUE]

Current == scrape.urls[scrape.pos]

InLoop == scrape.pc = "loop" /\ scrape.pos <= Len(scrape.urls)

\* the break test one save late: if limit is not None and count > limit
LimitReached_Late == scrape.limit # None /\ scrape.count > scrape.limit[1]

\* if limit is not None and count >= limit
LimitReached == scrape.limit # None /\ scrape.count >= scrape.limit[1]

\* the skip test inverted: if resume and not store.has_product(product_url)
ShouldSkip_Inverted(resume, db, url) == resume /\ ~has_product(db, url)

\* if resume and store.has_product(product_url)
ShouldSkip(resume, db, url) == resume /\ has_product(db, url)

\* scraper.scrape(store, limit=..., resume=...) is called
StartScrape(urls, limit, resume) ==
    /\ scrape.pc \in {"idle", "done"}
    /\ scrape.n < MaxRuns
    /\ scrape' = [pc |-> "loop", urls |-> urls, pos |-> 1, count |-> 0,
                  limit |-> limit, resume |-> resume, fetched |-> <<>>,
                  saves |-> 0, saved |-> {}, n |-> scrape.n + 1,
                  prev |-> [urls |-> scrape.urls, saved |-> scrape.saved]]
    /\ UNCHANGED <<stores, last, queued, saveCalled, marked, parser, discover, http, extractor, images>>

\* the generator is exhausted: the for loop ends
ScrapeExhausted ==
    /\ scrape.pc = "loop"
    /\ scrape.pos > Len(scrape.urls)
    /\ scrape' = [scrape EXCEPT !.pc = "done"]
    /\ UNCHANGED <<stores, last, queued, saveCalled, marked, parser, discover, http, extractor, images>>

\* break
ScrapeLimit ==
    /\ InLoop
    /\ LimitReached
    /\ scrape' = [scrape EXCEPT !.pc = "done"]
    /\ UNCHANGED <<stores, last, queued, saveCalled, marked, parser, discover, http, extractor, images>>

\* continue: the url is already stored
ScrapeSkip ==
    /\ InLoop
    /\ ~LimitReached
    /\ ShouldSkip(scrape.resume, TheStore, Current)
    /\ scrape' = [scrape EXCEPT !.pos = @ + 1]
    /\ UNCHANGED <<stores, last, queued, saveCalled, marked, parser, discover, http, extractor, images>>

\* fetch_product raised and the exception leaves scrape
ScrapeFetchFailed_Abort ==
    /\ InLoop
    /\ ~LimitReached
    /\ ~ShouldSkip(scrape.resume, TheStore, Current)
    /\ scrape' = [scrape EXCEPT !.pc = "raised", !.fetched = Append(@, Current)]
    /\ UNCHANGED <<stores, last, queued, saveCalled, marked, parser, discover, http, extractor, images>>

\* fetch_product raised (the fetch or the parse failed): logged, continue
ScrapeFetchFailed ==
    /\ InLoop
    /\ ~LimitReached
    /\ ~ShouldSkip(scrape.resume, TheStore, Current)
    /\ scrape' = [scrape EXCEPT !.pos = @ + 1, !.fetched = Append(@, Current)]
    /\ UNCHANGED <<stores, last, queued, saveCalled, marked, parser, discover, http, extractor, images>>

\* fetch_product returned product (its url is the url fetched);
\* store.save_product(product); count += 1 -- or the exception of
\* save_product leaves scrape
ScrapeStore(product, ts) ==
    /\ InLoop
    /\ ~LimitReached
    /\ ~ShouldSkip(scrape.resume, TheStore, Current)
    /\ product.url = Current
    /\ SaveCall(product, ts)
    /\ scrape' =
          IF \E b \in Driven : last'.raised[b]
          THEN [scrape EXCEPT !.pc = "raised", !.fetched = Append(@, Current),
                              !.saves = @ + 1]
          ELSE [scrape EXCEPT !.pos = @ + 1, !.count = @ + 1,
                              !.fetched = Append(@, Current), !.saves = @ + 1,
                              !.saved = @ \cup {Current}]

NextScrape ==
    \/ \E urls \in DistinctSeqs(Urls), limit \in Limits, resume \in BOOLEAN :
           StartScrape(urls, limit, resume)
    \/ ScrapeExhausted
    \/ ScrapeLimit
    \/ ScrapeSkip
    \/ ScrapeFetchFailed
    \/ \E product \in ApiProducts, ts \in ApiTimestamps : ScrapeStore(product, ts)

SpecScrape == Init /\ [][NextScrape]_vars

Range(q) == {q[k] : k \in DOMAIN q}

\* the run in progress is a resume run over the urls of the run before it,
\* and that run saved every one of them
SecondRunOverSavedUrls ==
    /\ scrape.n >= 2
    /\ scrape.resume
    /\ scrape.urls = scrape.prev.urls
    /\ Range(scrape.prev.urls) \subseteq scrape.prev.saved

\* C1: in a resume run, a url for which has_product is true when it is
\* yielded is neither fetched nor saved; hence a resume run over the urls of
\* a run that saved every one of them fetches no product page and calls
\* save_product zero times.
C1_ResumeSkipsStoredUrls ==
    /\ [][(InLoop /\ scrape.resume /\ has_product(TheStore, Current)) =>
              /\ scrape'.fetched = scrape.fetched
              /\ scrape'.saves = scrape.saves
              /\ stores' = stores]_vars
    /\ [](SecondRunOverSavedUrls => (scrape.fetched = <<>> /\ scrape.saves = 0))

\* a second resume run over two saved urls has come to its end
C1_Witness ==
    /\ SecondRunOverSavedUrls
    /\ scrape.pc = "done"
    /\ Len(scrape.urls) = 2
    /\ scrape.pos > Len(scrape.urls)

---------------------------------------------------------------------------
(* Properties of the persistence layer *)

ScalarFields ==
    {"name", "brand", "description", "image_url", "rating_value", "rating_count",
     "categories", "json_ld"}

\* the latest call was a save_product that returned normally on backend b
SavedOk(b) == last.op = "save_product" /\ ~last.raised[b]

\* the ingredient rows stored for a url
IngredientRows(db, url) ==
    {x \in db.ingredients : x.product_id = ProductIdByUrl(db, url)}

\* C2: after save_product(p1) then save_product(p2) for one url, the product
\* read back by iter_products carries p2's value in every scalar field
\* (name, brand, description, image_url, rating_value, rating_count,
\* categories, json_ld), whichever of them are None.
C2_LatestScalarValues ==
    \A b \in Driven :
        (SavedOk(b) /\ last.again[b]) =>
            \E q \in iter_products(stores[b]) :
                /\ q.url = last.arg.url
                /\ \A f \in ScalarFields : q[f] = last.arg[f]

\* C3: the products table holds at most one row per url, whatever sequence
\* of save_product, add_products_for_brand and mark_product_scraped calls
\* was made.
C3_OneRowPerUrl ==
    \A b \in Driven :
        \A i, j \in DOMAIN stores[b].products :
            stores[b].products[i].url = stores[b].products[j].url => i = j

\* a url that was queued and then saved twice in a row
C3_Witness ==
    /\ last.op = "save_product"
    /\ last.arg.url \in queued
    /\ \A b \in Driven :
          /\ last.again[b] /\ ~last.raised[b]
          /\ Len(stores[b].products) = 2

\* C4: after a successful save_product(p) the ingredient rows stored for
\* p.url are exactly p.ingredients: each one present (name, url and extra),
\* one row each, and no row left from an earlier save.
C4_ExactIngredientRows ==
    \A b \in Driven :
        SavedOk(b) =>
            /\ load_ingredients(stores[b], ProductIdByUrl(stores[b], last.arg.url))
                   = IngredientSet(last.arg)
            /\ Cardinality(IngredientRows(stores[b], last.arg.url))
                   = Len(last.arg.ingredients)

\* a successful save of a non-empty ingredient list over rows it does not pass
C4_Witness ==
    \E b \in Driven :
        /\ SavedOk(b) /\ last.stale[b]
        /\ last.arg.ingredients # <<>>

\* what a caller can read about products and ingredients
ProductReads(db) ==
    [has |-> {u \in Urls : has_product(db, u)},
     products |-> iter_products(db),
     ingredient_rows |-> db.ingredients]

\* C5: a save_product that fails partway is rolled back as a whole:
\* has_product, iter_products and the stored ingredient rows read as before
\* the call, on both backends.
C5_FailedSaveLeavesNoTrace ==
    [][\A b \in Driven :
          (last'.op = "save_product" /\ last'.raised[b]) =>
              ProductReads(stores'[b]) = ProductReads(stores[b])]_vars

\* C6: after every sequence of DataStore operations, has_product,
\* iter_products, iter_pending_brands and iter_products_to_scrape return the
\* same on the DuckDB-backed store as on the SQLite-backed store.
Reads(b) ==
    [has |-> {u \in Urls : has_product(stores[b], u)},
     products |-> iter_products(stores[b]),
     pending_brands |-> iter_pending_brands(stores[b]),
     to_scrape |-> iter_products_to_scrape(b, stores[b], TRUE),
     to_scrape_all |-> iter_products_to_scrape(b, stores[b], FALSE)]

C6_BackendsAgree == Reads("duckdb") = Reads("sqlite")

\* C7: has_product(url) is false for a url never handed to the store, false
\* for a url that was only queued by add_products_for_brand, and true after
\* a save_product for that url returned.
C7_ResumePredicate ==
    \A b \in Driven :
        /\ \A u \in Urls \ (queued \cup saveCalled) : ~has_product(stores[b], u)
        /\ \A u \in queued \ (saveCalled \cup marked[b]) : ~has_product(stores[b], u)
        /\ SavedOk(b) => has_product(stores[b], last.arg.url)

\* one url queued and not completed, the other one just saved
C7_Witness ==
    /\ last.op = "save_product"
    /\ \A b \in Driven :
          /\ ~last.raised[b]
          /\ \E u \in queued \ (saveCalled \cup marked[b]) :
                 ProductIdByUrl(stores[b], u) # 0

\* C8: once has_product(url) is true it stays true after every later store
\* operation (save_product for any url, add_products_for_brand, add_brands,
\* mark_brand_processed, mark_product_scraped, reset_brand_processing).
C8_CompletionMonotonic ==
    [][\A b \in Driven : \A u \in Urls :
          has_product(stores[b], u) => has_product(stores'[b], u)]_vars

\* a completed url has just been queued again
C8_Witness ==
    /\ last.op = "add_products_for_brand"
    /\ \A b \in Driven :
          /\ ~last.raised[b]
          /\ \E k \in DOMAIN last.arg : has_product(stores[b], last.arg[k][1])

\* C9: on an empty store, save_product(p) followed by iter_products yields
\* exactly one product, equal to p in url, name, brand, description,
\* image_url, image_path, rating_value, rating_count, categories, json_ld
\* and in its set of ingredients.
RoundTripFields ==
    {"url", "name", "brand", "description", "image_url", "image_path",
     "rating_value", "rating_count", "categories", "json_ld"}

C9_RoundTrip ==
    \A b \in Driven :
        (SavedOk(b) /\ last.fresh[b]) =>
            /\ Cardinality(iter_products(stores[b])) = 1
            /\ \A q \in iter_products(stores[b]) :
                  /\ \A f \in RoundTripFields :
                        /\ f \in DOMAIN q
                        /\ f \in DOMAIN last.arg
                        /\ q[f] = last.arg[f]
                  /\ q.ingredients = IngredientSet(last.arg)

\* C10: after save_product(p) the product iter_products returns for p.url
\* has the same materials, functions and highlights as p.
C10_SectionsPersisted ==
    \A b \in Driven :
        SavedOk(b) =>
            \E q \in iter_products(stores[b]) :
                /\ q.url = last.arg.url
                /\ q.materials = last.arg.materials
                /\ q.functions = last.arg.functions
                /\ q.highlights = last.arg.highlights

---------------------------------------------------------------------------
(* ProductHTMLParser: the ingredient map built while the markup is fed,    *)
(* the linked-data ingredient list and the deduplication pass of parse.    *)
(*                                                                         *)
(* A Python string is the record of its lower-cased trimmed text, whether  *)
(* it has capital letters and whether it has surrounding whitespace; ""    *)
(* is EmptyStr and a whitespace-only string is Blank.  An optional string  *)
(* that the code only reads through its truth value (x or "", if not x)    *)
(* is EmptyStr when it is None.                                            *)

Str(text, up, pad) == [text |-> text, up |-> up, pad |-> pad]
EmptyStr == Str("", FALSE, FALSE)
Blank == Str("", FALSE, TRUE)

\* str.lower()
Lower(s) == [s EXCEPT !.up = FALSE]

\* str.strip()
Strip(s) == [s EXCEPT !.pad = FALSE]

\* urllib.parse.urljoin(self.base_url + "/", ref.lstrip("/")): a path of the
\* site becomes the absolute url, an absolute url stays what it is
Urljoin(ref) ==
    [ref EXCEPT !.text =
        CASE @ = "/ingredients/water" -> "https://incidecoder.com/ingredients/water"
          [] @ = "/ingredients/glycerin" -> "https://incidecoder.com/ingredients/glycerin"
          [] @ = "/function/humectant" -> "https://incidecoder.com/function/humectant"
          [] @ = "/about/tooltips" -> "https://incidecoder.com/about/tooltips"
          [] OTHER -> @]

\* href.split("/")[-1].replace("-", " ").title()
SlugTitle(href) ==
    CASE href.text = "/ingredients/water" -> Str("water", TRUE, FALSE)
      [] href.text = "/ingredients/glycerin" -> Str("glycerin", TRUE, FALSE)

\* ProductHTMLParser._ingredient_key
ingredient_key(url, name) ==
    IF url # EmptyStr THEN Lower(url)
    ELSE IF name # EmptyStr THEN Lower(Strip(name))
    ELSE EmptyStr

\* Ingredient(name=..., url=..., extra=...)
Ingredient(name, url, extra) == [name |-> name, url |-> url, extra |-> extra]

\* dict.update on dicts kept as sets of <<key, value>> pairs
DictUpdate(d, e) == {p \in d : ~\E q \in e : q[1] = p[1]} \cup e

DictKeys(d) == {p[1] : p \in d}

DictGet(d, k) == (CHOOSE p \in d : p[1] = k)[2]

\* self.ingredients is a dict in insertion order: a sequence of
\* [key, value] slots with distinct keys
Slot(m, key) ==
    IF \E i \in DOMAIN m : m[i].key = key
    THEN CHOOSE i \in DOMAIN m : m[i].key = key
    ELSE 0

\* self.ingredients[key] = value
SetItem(m, key, value) ==
    IF Slot(m, key) = 0
    THEN Append(m, [key |-> key, value |-> value])
    ELSE [m EXCEPT ![Slot(m, key)].value = value]

\* {field: value for field, value in extra.items() if value not in (None, "", [])}
Sanitized(extra) == {p \in extra : p[2] # EmptyStr}

\* ProductHTMLParser._register_ingredient_extra
register_ingredient_extra(m, key, extra, name_hint, url_hint) ==
    LET sanitized == Sanitized(extra)
        target_key == IF key # EmptyStr THEN key
                      ELSE ingredient_key(url_hint, name_hint)
        i == Slot(m, target_key)
    IN IF extra = {} \/ sanitized = {} \/ target_key = EmptyStr THEN m
       ELSE IF i = 0
       THEN SetItem(m, target_key, Ingredient(name_hint, url_hint, sanitized))
       ELSE [m EXCEPT ![i].value =
               [name |-> IF name_hint # EmptyStr /\ @.name = EmptyStr
                         THEN name_hint ELSE @.name,
                url |-> IF url_hint # EmptyStr /\ @.url = EmptyStr
                        THEN url_hint ELSE @.url,
                extra |-> DictUpdate(@.extra, sanitized)]]

\* the top of self._ingredient_context_stack
Top == parser.stack[Len(parser.stack)]

\* handle_starttag of an element with the detailpage__ingredient class
\* inside the detail page: a context is pushed
IngredientContext(url_attr, name_attr, tip_attr) ==
    LET url_hint == IF url_attr # EmptyStr THEN Urljoin(url_attr) ELSE EmptyStr
        name_hint == Strip(name_attr)
    IN [key |-> ingredient_key(url_hint, name_hint),
        name_hint |-> name_hint,
        url_hint |-> url_hint,
        data_tooltip_text |-> tip_attr]

\* handle_starttag then handle_endtag of <a href="/ingredients/...">text</a>
\* on the ingredient map
AnchorIngredients(m, href, data_name, text) ==
    LET full_url == Urljoin(href)
        key == ingredient_key(full_url, text)
        started == IF data_name # EmptyStr
                   THEN SetItem(m, ingredient_key(full_url, data_name),
                                Ingredient(Strip(data_name), full_url, {}))
                   ELSE m
        i == Slot(started, key)
    IN IF i = 0
       THEN SetItem(started, key,
                Ingredient(IF text # EmptyStr THEN text ELSE SlugTitle(href),
                           full_url, {}))
       ELSE IF text # EmptyStr
       THEN [started EXCEPT ![i].value.name = text]
       ELSE started

\* handle_endtag of that anchor on the open ingredient context
AnchorContext(c, href, text) ==
    LET full_url == Urljoin(href)
    IN [c EXCEPT
          !.key = IF @ = EmptyStr THEN ingredient_key(full_url, text) ELSE @,
          !.name_hint = IF text # EmptyStr /\ @ = EmptyStr THEN text ELSE @,
          !.url_hint = IF @ = EmptyStr THEN full_url ELSE @]

\* the extra of a tooltip region that closes (title and body are normalized
\* text, data-tooltip-text fills tooltip_text when the body gave none)
TooltipExtra(c, title, body) ==
    LET t == IF title # EmptyStr THEN {<<"tooltip_title", title>>} ELSE {}
        b == IF body # EmptyStr THEN {<<"tooltip_text", body>>} ELSE {}
        d == IF c.data_tooltip_text # EmptyStr /\ body = EmptyStr
             THEN {<<"tooltip_text", Strip(c.data_tooltip_text)>>} ELSE {}
    IN t \cup b \cup d

\* the extra registered when the ingredient block itself closes
BlockExtra(c) ==
    IF c.data_tooltip_text # EmptyStr
    THEN {<<"tooltip_text", Strip(c.data_tooltip_text)>>} ELSE {}

\* the linked-data ingredient list (hasIngredient / ingredient / ingredients):
\* a dict item is [name, id, url], a str item is [str]
RECURSIVE JsonLdIngredients(_, _, _)
JsonLdIngredients(m, items, k) ==
    IF k > Len(items) THEN m
    ELSE LET item == items[k]
         IN IF "str" \in DOMAIN item
            THEN \* self.ingredients.setdefault(key, Ingredient(name=item, url=""))
                 LET key == ingredient_key(EmptyStr, item.str)
                 IN JsonLdIngredients(
                        IF Slot(m, key) = 0
                        THEN SetItem(m, key, Ingredient(item.str, EmptyStr, {}))
                        ELSE m, items, k + 1)
            ELSE LET name == IF item.name # EmptyStr THEN item.name ELSE item.id
                     ref == IF item.id # EmptyStr THEN item.id ELSE item.url
                     url_value == IF ref # EmptyStr THEN Urljoin(ref) ELSE EmptyStr
                     key == ingredient_key(url_value, name)
                     i == Slot(m, key)
                 IN IF name = EmptyStr THEN JsonLdIngredients(m, items, k + 1)
                    ELSE JsonLdIngredients(
                        IF i = 0
                        THEN SetItem(m, key, Ingredient(name, url_value, {}))
                        ELSE IF m[i].value.url = EmptyStr /\ url_value # EmptyStr
                        THEN [m EXCEPT ![i].value.url = url_value]
                        ELSE m, items, k + 1)

\* the start of the deduplication pass
NoDedup ==
    [list |-> <<>>, index_by_url |-> {}, index_by_name |-> {},
     folds |-> <<>>, keys |-> <<>>]

\* one iteration of the deduplication loop of parse, every mention appended
\* as a new entry (no lookup in the indexes)
DedupStep_NoLookup(a, ingredient) ==
    [a EXCEPT !.list = Append(@, ingredient)]

\* one iteration of the deduplication loop of parse; folds records each fold
\* (the merged entry before and after, and the mention), keys the url_key and
\* name_key computed for the mention (EmptyStr for None)
DedupStep(a, ingredient) ==
    LET url_key == IF ingredient.url # EmptyStr THEN Lower(ingredient.url) ELSE EmptyStr
        name_key == IF ingredient.name # EmptyStr THEN Lower(ingredient.name) ELSE EmptyStr
        byUrl == url_key # EmptyStr /\ url_key \in DictKeys(a.index_by_url)
        byName == name_key # EmptyStr /\ name_key \in DictKeys(a.index_by_name)
        found == byUrl \/ byName
        target_index == IF byUrl THEN DictGet(a.index_by_url, url_key)
                        ELSE IF byName THEN DictGet(a.index_by_name, name_key)
                        ELSE Len(a.list) + 1
        before == a.list[target_index]
        merged == [name |-> IF ingredient.name # EmptyStr /\ before.name = EmptyStr
                            THEN ingredient.name ELSE before.name,
                   url |-> IF ingredient.url # EmptyStr /\ before.url = EmptyStr
                           THEN ingredient.url ELSE before.url,
                   extra |-> DictUpdate(before.extra, ingredient.extra)]
    IN [list |-> IF found THEN [a.list EXCEPT ![target_index] = merged]
                 ELSE Append(a.list, ingredient),
        index_by_name |->
            IF name_key # EmptyStr /\ name_key \notin DictKeys(a.index_by_name)
            THEN a.index_by_name \cup {<<name_key, target_index>>}
            ELSE a.index_by_name,
        index_by_url |->
            IF url_key # EmptyStr /\ url_key \notin DictKeys(a.index_by_url)
            THEN a.index_by_url \cup {<<url_key, target_index>>}
            ELSE a.index_by_url,
        folds |-> IF found
                  THEN Append(a.folds, [before |-> before, mention |-> ingredient,
                                        after |-> merged])
                  ELSE a.folds,
        keys |-> Append(a.keys, [url |-> ingredient.url, name |-> ingredient.name,
                                 url_key |-> url_key, name_key |-> name_key])]

\* for ingredient in self.ingredients.values(): ...
RECURSIVE Dedup(_, _, _)
Dedup(a, m, k) ==
    IF k > Len(m) THEN a ELSE Dedup(DedupStep(a, m[k].value), m, k + 1)

---------------------------------------------------------------------------
(* Markup fed to the parser, as the events that touch the ingredient map.  *)
(* Ingredient blocks are not nested, a tooltip region holds text only and  *)
(* an anchor holds text only.                                              *)

MaxTags == 2
MaxJsonItems == 1

WaterUrl == Str("https://incidecoder.com/ingredients/water", FALSE, FALSE)

IngredientHrefs ==
    {Str("/ingredients/water", FALSE, FALSE), Str("/ingredients/water", TRUE, FALSE),
     Str("/ingredients/glycerin", FALSE, FALSE)}

\* the visible text of an anchor, joined from stripped parts
AnchorTexts == {EmptyStr, Str("water", TRUE, FALSE), Str("aqua", FALSE, FALSE)}

\* data-name / title of an anchor
DataNames == {EmptyStr, Str("water", TRUE, TRUE)}

\* data-ingredient-url, data-name and data-tooltip-text of an ingredient block
UrlAttrs == {EmptyStr, Str("/ingredients/water", FALSE, FALSE)}
NameAttrs == {EmptyStr, Blank, Str("water", TRUE, FALSE)}
TipAttrs == {EmptyStr, Blank, Str("a", FALSE, FALSE), Str("b", FALSE, FALSE)}

\* normalized title and body text of a tooltip region
TooltipTitles == {EmptyStr, Str("t", FALSE, FALSE)}
TooltipBodies == {EmptyStr, Str("b", FALSE, FALSE)}

\* items of the linked-data ingredient list
JsonItems ==
    {[name |-> n, id |-> i, url |-> EmptyStr] :
        n \in {EmptyStr, Str("water", TRUE, TRUE)}, i \in {EmptyStr, WaterUrl}}
    \cup {[str |-> t] : t \in {Blank, Str("water", FALSE, FALSE),
                                Str("water", TRUE, TRUE), WaterUrl}}

JsonLdLists == SeqsUpTo(JsonItems, MaxJsonItems)

Feeding == parser.pc = "feed" /\ parser.tags < MaxTags

\* <div class="detailpage__ingredient" data-ingredient-url=.. data-name=..
\*      data-tooltip-text=..>
OpenIngredient(url_attr, name_attr, tip_attr) ==
    /\ Feeding
    /\ parser.stack = <<>>
    /\ parser' = [parser EXCEPT
          !.stack = Append(@, IngredientContext(url_attr, name_attr, tip_attr)),
          !.tags = @ + 1]
    /\ UNCHANGED <<stores, last, queued, saveCalled, marked, scrape, discover, http, extractor, images>>

\* <a href="/ingredients/..." data-name=..>text</a>
IngredientAnchor(href, data_name, text) ==
    /\ Feeding
    /\ parser' = [parser EXCEPT
          !.ingredients = AnchorIngredients(@, href, data_name, text),
          !.stack = IF @ = <<>> THEN @
                    ELSE [@ EXCEPT ![Len(@)] = AnchorContext(@, href, text)],
          !.tags = @ + 1]
    /\ UNCHANGED <<stores, last, queued, saveCalled, marked, scrape, discover, http, extractor, images>>

\* <span class="tooltip"><strong>title</strong>body</span> inside the open
\* ingredient block: the end tag of the region registers its extra
Tooltip(title, body) ==
    /\ Feeding
    /\ parser.stack # <<>>
    /\ parser' = [parser EXCEPT
          !.ingredients = register_ingredient_extra(@, Top.key,
                              TooltipExtra(Top, title, body),
                              Top.name_hint, Top.url_hint),
          !.tags = @ + 1]
    /\ UNCHANGED <<stores, last, queued, saveCalled, marked, scrape, discover, http, extractor, images>>

\* the end tag of the ingredient block: depth reaches 0, the block's own
\* extra is registered and the context popped
CloseIngredient ==
    /\ parser.pc = "feed"
    /\ parser.stack # <<>>
    /\ parser' = [parser EXCEPT
          !.ingredients = register_ingredient_extra(@, Top.key, BlockExtra(Top),
                              Top.name_hint, Top.url_hint),
          !.stack = SubSeq(@, 1, Len(@) - 1)]
    /\ UNCHANGED <<stores, last, queued, saveCalled, marked, scrape, discover, http, extractor, images>>

\* the markup ends: parse goes through the linked-data ingredient list, runs
\* the deduplication pass and returns the product
FinishParse(json_ingredients) ==
    /\ parser.pc = "feed"
    /\ LET m == JsonLdIngredients(parser.ingredients, json_ingredients, 1)
           a == Dedup(NoDedup, m, 1)
       IN parser' = [parser EXCEPT !.pc = "done", !.ingredients = m,
                        !.product = a.list, !.folds = a.folds, !.keys = a.keys]
    /\ UNCHANGED <<stores, last, queued, saveCalled, marked, scrape, discover, http, extractor, images>>

NextParse ==
    \/ \E url_attr \in UrlAttrs, name_attr \in NameAttrs, tip_attr \in TipAttrs :
           OpenIngredient(url_attr, name_attr, tip_attr)
    \/ \E href \in IngredientHrefs, data_name \in DataNames, text \in AnchorTexts :
           IngredientAnchor(href, data_name, text)
    \/ \E title \in TooltipTitles, body \in TooltipBodies : Tooltip(title, body)
    \/ CloseIngredient
    \/ \E json_ingredients \in JsonLdLists : FinishParse(json_ingredients)

SpecParse == InitBoth /\ [][NextParse]_vars

\* the identity key of an entry: its lower-cased url if it has one, else
\* its lower-cased trimmed name
IdentityKey(e) ==
    IF e.url # EmptyStr THEN Lower(e.url) ELSE Lower(Strip(e.name))

C12_FoldKeepsExisting ==
    \A k \in DOMAIN parser.folds :
        LET f == parser.folds[k]
        IN /\ f.before.name # EmptyStr => f.after.name = f.before.name
           /\ f.before.url # EmptyStr => f.after.url = f.before.url
           /\ f.before.extra \subseteq f.after.extra

\* C13: the url key and the name key that the deduplication pass computes
\* for a mention are what _ingredient_key yields for the same url and name.
C13_KeysAsIngredientKey ==
    \A k \in DOMAIN parser.keys :
        LET r == parser.keys[k]
        IN /\ r.url # EmptyStr => r.url_key = ingredient_key(r.url, r.name)
           /\ r.name # EmptyStr => r.name_key = ingredient_key(EmptyStr, r.name)

---------------------------------------------------------------------------
(* IncidecoderScraper.discover_product_urls: the sitemap strategy and the  *)
(* brand strategy behind one "emitted" set.  One step per fetch: the fetch *)
(* and everything the generators do up to the next fetch.                  *)
(*                                                                         *)
(* An absolute url is [host, path, query], an href found in a page is      *)
(* [path, query] (path "" for a query-only reference); a page is the       *)
(* sequence of the hrefs of its anchors, a sitemap file is well-formed or  *)
(* not and holds the texts of its <loc> elements.                          *)

Url(host, path, query) == [host |-> host, path |-> path, query |-> query]
Href(path, query) == [path |-> path, query |-> query]

BaseHost == "incidecoder.com"

BrandPaths == {"/brands/b1", "/brands/b2"}
ProductPaths == {"/products/p1", "/products/p2"}
PageQueries == {"page=1", "page=2"}

\* letter_tokens, three of them
LetterTokens == <<"a", "0-9", "other">>

\* HttpClient.build_url of a path of the site
build_url(link) == Url(BaseHost, link.path, link.query)

\* urllib.parse.urljoin(current_url, link)
UrljoinPage(current_url, link) ==
    IF link.path # "" THEN Url(current_url.host, link.path, link.query)
    ELSE IF link.query # "" THEN [current_url EXCEPT !.query = link.query]
    ELSE current_url

\* href.startswith(prefix)
StartsWith(href, prefix) ==
    CASE prefix = "/brands/" -> href.path \in BrandPaths
      [] prefix = "/products/" -> href.path \in ProductPaths
      [] prefix = "?page=" -> href.path = "" /\ href.query \in PageQueries
      [] OTHER -> FALSE

\* the pagination collector taking every href that has a page query
PaginationPrefixes_AnyPath == {"?page=", "/brands/"}

\* LinkCollector(("?page=",))
PaginationPrefixes == {"?page="}

\* LinkCollector(prefixes) fed a page: the hrefs that start with one of the
\* prefixes, in document order, each once
RECURSIVE LinkCollector(_, _, _, _)
LinkCollector(prefixes, page, k, links) ==
    IF k > Len(page) THEN links
    ELSE LinkCollector(prefixes, page, k + 1,
            IF (\E prefix \in prefixes : StartsWith(page[k], prefix))
               /\ page[k] \notin Range(links)
            THEN Append(links, page[k]) ELSE links)

\* [f(x) for x in q]
Map(q, F(_)) == [k \in DOMAIN q |-> F(q[k])]

\* the list unfiltered
NotIn_Unfiltered(q, S) == q

\* [x for x in q if x not in S]
NotIn(q, S) == SelectSeq(q, LAMBDA x : x \notin S)

\* "product" in sitemap_url.lower()
ContainsProduct(sitemap_url) ==
    sitemap_url \in {"sitemap-products-1.xml", "sitemap-Products-2.xml"}

\* "/products/" in loc.text
ProductsPath(loc) == loc.path \in ProductPaths

\* the next index entry at or after i that the loop fetches
RECURSIVE NextChild(_, _)
NextChild(sitemaps, i) ==
    IF i > Len(sitemaps) \/ ContainsProduct(sitemaps[i]) THEN i
    ELSE NextChild(sitemaps, i + 1)

\* the child loop ending at the first child that fails
AfterChild_FailureEndsLoop(sitemaps, i, resp) ==
    IF resp.ok /\ resp.wellformed THEN NextChild(sitemaps, i + 1) ELSE Len(sitemaps) + 1

\* continue / the end of the loop body: the loop goes to the next child
\* whatever child i answered
AfterChild(sitemaps, i, resp) == NextChild(sitemaps, i + 1)

\* the emitted test left out
IsNew_Always(emitted, url) == TRUE

\* if url not in emitted
IsNew(emitted, url) == url \notin emitted

\* for url in iterator: if url not in emitted: emitted.add(url); yield url
\* -- the urls of urls that discover_product_urls yields, in order
RECURSIVE NewUrls(_, _)
NewUrls(emitted, urls) ==
    IF urls = <<>> THEN <<>>
    ELSE IF ~IsNew(emitted, Head(urls)) THEN NewUrls(emitted, Tail(urls))
    ELSE <<Head(urls)>> \o NewUrls(emitted \cup {Head(urls)}, Tail(urls))

\* has q a repeated element
HasRepeat(q) == \E i, j \in DOMAIN q : i # j /\ q[i] = q[j]

\* the step's fetch and the urls the running strategy yielded after it,
\* passed through the filter of discover_product_urls
Fetched(d, kind, url, urls) ==
    LET new == NewUrls(d.emitted, urls)
    IN [d EXCEPT
          !.fetch = [kind |-> kind, url |-> url, brand |-> d.brand_url,
                     yielding |-> urls # <<>>],
          !.emitted = @ \cup Range(new),
          !.yieldedAgain = @ \/ HasRepeat(new) \/ Range(new) \cap d.yielded # {},
          !.yielded = @ \cup Range(new),
          !.droppedBy = IF Len(new) < Len(urls) THEN @ \cup {d.running} ELSE @,
          !.sitemapYielded = @ \/ (d.running = "sitemap" /\ urls # <<>>),
          !.brandYielded = @ \/ (d.running = "brands" /\ new # <<>>),
          !.childFetched = @ \/ kind = "sitemap",
          !.brandFetched = @ \/ kind \in {"brand_index", "brand_page"}]

\* strategies.append(...) in the order of discover_product_urls, reversed
Strategies_BrandsFirst(strategy) ==
    (IF strategy \in {"auto", "brands"} THEN <<"brands">> ELSE <<>>)
    \o (IF strategy \in {"auto", "sitemap"} THEN <<"sitemap">> ELSE <<>>)

\* strategies.append(("sitemap", ...)); strategies.append(("brands", ...))
Strategies(strategy) ==
    (IF strategy \in {"auto", "sitemap"} THEN <<"sitemap">> ELSE <<>>)
    \o (IF strategy \in {"auto", "brands"} THEN <<"brands">> ELSE <<>>)

\* the outer for loop, ending the run when the sitemap index had failed
Enter_FailureEndsRun(d) ==
    IF d.pending = <<>> \/ d.indexFailed THEN [d EXCEPT !.pc = "done", !.running = "none"]
    ELSE [d EXCEPT
            !.running = Head(d.pending),
            !.pending = Tail(d.pending),
            !.pc = IF Head(d.pending) = "sitemap" THEN "sitemap_index"
                   ELSE "brand_index",
            !.token = 1, !.page = 1, !.visited_brands = {}]

\* the outer for loop takes the next strategy: its generator runs up to its
\* first fetch
Enter(d) ==
    IF d.pending = <<>> THEN [d EXCEPT !.pc = "done", !.running = "none"]
    ELSE [d EXCEPT
            !.running = Head(d.pending),
            !.pending = Tail(d.pending),
            !.pc = IF Head(d.pending) = "sitemap" THEN "sitemap_index"
                   ELSE "brand_index",
            !.token = 1, !.page = 1, !.visited_brands = {}]

\* break out of while True: the next letter token, or the end of the
\* for loop over the tokens
NextToken(d) ==
    IF d.token < Len(LetterTokens)
    THEN [d EXCEPT !.token = @ + 1, !.page = 1]
    ELSE [d EXCEPT !.pc = "exhausted"]

\* the head of the queue is popped without a fetch while it is in seen_pages
RECURSIVE DropSeen(_, _)
DropSeen(queue, seen_pages) ==
    IF queue # <<>> /\ Head(queue) \in seen_pages
    THEN DropSeen(Tail(queue), seen_pages) ELSE queue

\* visited_brands.add(brand_link); _discover_products_for_brand(brand_link)
\* up to its first fetch
StartCrawl(d, i) ==
    [d EXCEPT !.bi = i,
              !.visited_brands = @ \cup {d.brand_links[i]},
              !.brand_url = d.brand_links[i],
              !.seen_pages = {},
              !.queue = <<d.brand_links[i]>>,
              !.pc = "brand_page",
              !.crawledAgain = @ \/ d.brand_links[i] \in d.crawled,
              !.crawled = @ \cup {d.brand_links[i]},
              !.fetched = {}]

\* the queue of the crawl is empty: the next brand link of the index page,
\* or page += 1 and the next index page
AfterCrawl(d) ==
    IF d.bi < Len(d.brand_links) THEN StartCrawl(d, d.bi + 1)
    ELSE [d EXCEPT !.page = @ + 1, !.pc = "brand_index", !.brand_url = <<>>,
                   !.brand_links = <<>>, !.bi = 1]

\* the url of the brand index page for (token, page)
IndexUrl(token, page) ==
    Url(BaseHost, "/brands",
        IF page > 1 THEN <<"letter", LetterTokens[token], "page", page>>
        ELSE <<"letter", LetterTokens[token]>>)

\* what a fetch returns: it raised, or a body
FetchFailed == [ok |-> FALSE]
Page(hrefs) == [ok |-> TRUE, hrefs |-> hrefs]
Xml(wellformed, locs) == [ok |-> TRUE, wellformed |-> wellformed, locs |-> locs]

MaxLocs == 2
MaxAnchors == 2

SitemapUrls == {"sitemap-products-1.xml", "sitemap-Products-2.xml", "sitemap-brands.xml"}

ProductUrls == {Url(BaseHost, path, "") : path \in ProductPaths}

\* /sitemap.xml as the site may serve it
IndexResponses ==
    {FetchFailed, Xml(FALSE, <<>>)}
    \cup {Xml(TRUE, locs) : locs \in DistinctSeqs(SitemapUrls)}

\* a child sitemap as the site may serve it
ChildResponses ==
    {FetchFailed, Xml(FALSE, <<>>)}
    \cup {Xml(TRUE, locs) :
            locs \in SeqsUpTo(ProductUrls \cup {Url(BaseHost, "/brands/b1", "")}, MaxLocs)}

\* a brand index page as the site may serve it
BrandIndexResponses ==
    {FetchFailed}
    \cup {Page(hrefs) :
            hrefs \in SeqsUpTo({Href(path, "") : path \in BrandPaths}
                               \cup {Href("/products/p1", "")}, MaxAnchors)}

\* a brand listing page as the site may serve it
BrandPageResponses ==
    {FetchFailed}
    \cup {Page(hrefs) :
            hrefs \in SeqsUpTo({Href("/products/p1", "")}
                               \cup {Href("", query) : query \in PageQueries}
                               \cup {Href("/brands/b2", "page=2")}, MaxAnchors)}

\* the same with few answers, for runs of both strategies
FewIndexResponses ==
    {FetchFailed, Xml(FALSE, <<>>),
     Xml(TRUE, <<"sitemap-brands.xml", "sitemap-products-1.xml">>)}

FewChildResponses ==
    {FetchFailed, Xml(TRUE, <<Url(BaseHost, "/products/p1", "")>>),
     Xml(TRUE, <<Url(BaseHost, "/products/p1", ""), Url(BaseHost, "/products/p1", "")>>)}

FewBrandIndexResponses ==
    {FetchFailed, Page(<<>>), Page(<<Href("/brands/b1", "")>>),
     Page(<<Href("/brands/b1", ""), Href("/brands/b2", "")>>)}

FewBrandPageResponses ==
    {FetchFailed,
     Page(<<Href("/products/p1", ""), Href("", "page=2")>>),
     Page(<<Href("", "page=1"), Href("", "page=2")>>),
     Page(<<Href("/products/p2", ""), Href("/brands/b2", "page=2")>>)}

\* discover_product_urls(strategy) is called and iterated
StartDiscovery(strategy) ==
    /\ discover.pc = "idle"
    /\ discover' = Enter([discover EXCEPT !.strategy = strategy,
                                          !.pending = Strategies(strategy)])
    /\ UNCHANGED <<stores, last, queued, saveCalled, marked, scrape, parser, http, extractor, images>>

\* self.http.fetch("/sitemap.xml") and ET.fromstring: a failure of either
\* returns from the generator; else the loop goes to the first child
FetchSitemapIndex(resp) ==
    /\ discover.pc = "sitemap_index"
    /\ LET d == Fetched(discover, "sitemap_index", "sitemap.xml", <<>>)
           sitemaps == resp.locs
       IN discover' =
            IF ~resp.ok \/ ~resp.wellformed
            THEN [d EXCEPT !.pc = "exhausted", !.indexFailed = TRUE]
            ELSE IF NextChild(sitemaps, 1) > Len(sitemaps)
            THEN [d EXCEPT !.pc = "exhausted", !.sitemaps = sitemaps,
                           !.si = NextChild(sitemaps, 1)]
            ELSE [d EXCEPT !.pc = "sitemap_child", !.sitemaps = sitemaps,
                           !.si = NextChild(sitemaps, 1)]
    /\ UNCHANGED <<stores, last, queued, saveCalled, marked, scrape, parser, http, extractor, images>>

\* self.http.fetch(sitemap_url) and ET.fromstring of one child: a failure
\* continues with the next child, else every <loc> with a products path is
\* yielded
FetchChildSitemap(resp) ==
    /\ discover.pc = "sitemap_child"
    /\ LET urls == IF resp.ok /\ resp.wellformed
                   THEN SelectSeq(resp.locs, ProductsPath) ELSE <<>>
           d == Fetched(discover, "sitemap", discover.sitemaps[discover.si], urls)
           next == AfterChild(discover.sitemaps, discover.si, resp)
       IN discover' =
            [d EXCEPT !.si = next,
                      !.pc = IF next > Len(discover.sitemaps) THEN "exhausted" ELSE @,
                      !.answers = @ \cup {<<discover.si, resp>>},
                      !.out = @ \o urls]
    /\ UNCHANGED <<stores, last, queued, saveCalled, marked, scrape, parser, http, extractor, images>>

\* self.http.fetch(path) of the brand index page (token, page): a failure
\* or a page without a new brand link breaks to the next token, else the
\* first new brand is crawled
FetchBrandIndex(resp) ==
    /\ discover.pc = "brand_index"
    /\ LET d == Fetched(discover, "brand_index",
                        IndexUrl(discover.token, discover.page), <<>>)
           collected == IF resp.ok
                        THEN LinkCollector({"/brands/", "/brand/"}, resp.hrefs, 1, <<>>)
                        ELSE <<>>
           brand_links == NotIn(Map(collected, build_url), discover.visited_brands)
       IN discover' =
            IF ~resp.ok THEN NextToken(d)
            ELSE IF brand_links = <<>>
            THEN NextToken([d EXCEPT !.emptyPages = IF @ < 2 THEN @ + 1 ELSE @])
            ELSE StartCrawl([d EXCEPT !.brand_links = brand_links,
                                      !.emptyPages = 0], 1)
    /\ UNCHANGED <<stores, last, queued, saveCalled, marked, scrape, parser, http, extractor, images>>

\* current_url = queue.pop(0); self.http.fetch(current_url): a failure
\* continues, else the product links are yielded and the pagination links
\* not yet seen are queued
FetchBrandPage(resp) ==
    /\ discover.pc = "brand_page"
    /\ LET current_url == Head(discover.queue)
           seen_pages == discover.seen_pages \cup {current_url}
           urls == IF resp.ok
                   THEN Map(LinkCollector({"/products/"}, resp.hrefs, 1, <<>>), build_url)
                   ELSE <<>>
           pagination == IF resp.ok
                         THEN LinkCollector(PaginationPrefixes, resp.hrefs, 1, <<>>)
                         ELSE <<>>
           absolute == [k \in DOMAIN pagination |->
                           UrljoinPage(current_url, pagination[k])]
           queue == DropSeen(Tail(discover.queue) \o NotIn(absolute, seen_pages),
                             seen_pages)
           d == [Fetched(discover, "brand_page", current_url, urls) EXCEPT
                    !.seen_pages = seen_pages,
                    !.queue = queue,
                    !.fetchedAgain = @ \/ current_url \in discover.fetched,
                    !.seenAgain = @ \/ Range(absolute) \cap seen_pages # {},
                    !.fetched = @ \cup {current_url}]
       IN discover' = IF queue = <<>> THEN AfterCrawl(d) ELSE d
    /\ UNCHANGED <<stores, last, queued, saveCalled, marked, scrape, parser, http, extractor, images>>

\* the generator of the running strategy is exhausted: the outer loop goes
\* to the next strategy, or discover_product_urls ends
StrategyExhausted ==
    /\ discover.pc = "exhausted"
    /\ discover' = Enter([discover EXCEPT !.fetch = [kind |-> "none"],
                                          !.sitemaps = <<>>, !.si = 1,
                                          !.answers = {}, !.out = <<>>])
    /\ UNCHANGED <<stores, last, queued, saveCalled, marked, scrape, parser, http, extractor, images>>

\* a run of both strategies, or of one of them
NextDiscover ==
    \/ \E strategy \in {"auto", "sitemap", "brands"} : StartDiscovery(strategy)
    \/ \E resp \in FewIndexResponses : FetchSitemapIndex(resp)
    \/ \E resp \in FewChildResponses : FetchChildSitemap(resp)
    \/ \E resp \in FewBrandIndexResponses : FetchBrandIndex(resp)
    \/ \E resp \in FewBrandPageResponses : FetchBrandPage(resp)
    \/ StrategyExhausted

SpecDiscover == InitBoth /\ [][NextDiscover]_vars

\* a run of the sitemap strategy
NextSitemap ==
    \/ StartDiscovery("sitemap")
    \/ \E resp \in IndexResponses : FetchSitemapIndex(resp)
    \/ \E resp \in ChildResponses : FetchChildSitemap(resp)
    \/ StrategyExhausted

SpecSitemap == InitBoth /\ [][NextSitemap]_vars

\* a run of the brand strategy
NextBrands ==
    \/ StartDiscovery("brands")
    \/ \E resp \in BrandIndexResponses : FetchBrandIndex(resp)
    \/ \E resp \in BrandPageResponses : FetchBrandPage(resp)
    \/ StrategyExhausted

SpecBrands == InitBoth /\ [][NextBrands]_vars

\* C14: discover_product_urls yields no url twice within one run.
C14_NoUrlYieldedTwice == ~discover.yieldedAgain

\* a run of both strategies ended in which the filter dropped a url that
\* the sitemap strategy yielded again and one that the brand strategy yielded
C14_Witness ==
    /\ discover.pc = "done"
    /\ discover.strategy = "auto"
    /\ discover.droppedBy = {"sitemap", "brands"}

\* C15: with strategy "auto", as long as the sitemap strategy is not
\* exhausted no brand index page and no brand listing page has been fetched
\* and no url of the brand strategy has been yielded.
C15_SitemapBeforeBrands ==
    (discover.strategy = "auto" /\ discover.running = "sitemap")
        => (~discover.brandFetched /\ ~discover.brandYielded)

\* a run of both strategies ended in which both yielded a url
C15_Witness ==
    /\ discover.pc = "done"
    /\ discover.strategy = "auto"
    /\ discover.sitemapYielded
    /\ discover.brandYielded

\* C16: once the brand-index walk has received two consecutive index pages
\* without a new brand link, the brand strategy is over.
C16_StopsAfterTwoEmptyPages ==
    discover.emptyPages >= 2 => discover.pc \in {"exhausted", "done"}

\* C17: when the fetch or the parse of the sitemap index fails, the sitemap
\* strategy ends there with nothing yielded and no child sitemap fetched,
\* and with strategy "auto" the brand strategy is run next.
C17_IndexFailureEndsSitemaps ==
    /\ [](discover.indexFailed => (~discover.childFetched /\ ~discover.sitemapYielded))
    /\ [][(discover.pc = "sitemap_index" /\ discover'.indexFailed)
             => (discover'.pc = "exhausted" /\ discover'.emitted = discover.emitted)]_vars
    /\ [][(discover.pc = "exhausted" /\ discover.running = "sitemap"
              /\ discover.indexFailed /\ discover.strategy = "auto")
             => discover'.pc = "brand_index"]_vars

\* a run of both strategies ended in which the sitemap index failed and the
\* brand strategy yielded a url
C17_Witness ==
    /\ discover.pc = "done"
    /\ discover.strategy = "auto"
    /\ discover.indexFailed
    /\ discover.brandYielded

\* the child of index entry i answered with a well-formed sitemap
Answered(i) ==
    {a \in discover.answers : a[1] = i /\ a[2].ok /\ a[2].wellformed}

\* the products-path <loc> texts of the children of entries n.. that
\* answered, in index order
RECURSIVE LocsOfAnswered(_)
LocsOfAnswered(n) ==
    IF n > Len(discover.sitemaps) THEN <<>>
    ELSE (IF ContainsProduct(discover.sitemaps[n]) /\ Answered(n) # {}
          THEN SelectSeq((CHOOSE a \in Answered(n) : TRUE)[2].locs, ProductsPath)
          ELSE <<>>) \o LocsOfAnswered(n + 1)

\* C18: whatever children failed, every referenced sitemap with "product" in
\* its url that the loop has passed was fetched, and the sitemap strategy
\* has yielded exactly the products-path <loc> texts of those that answered,
\* in index order.
C18_ChildFailureSkipsOnlyThatChild ==
    discover.running = "sitemap" =>
        /\ \A i \in DOMAIN discover.sitemaps :
              (i < discover.si /\ ContainsProduct(discover.sitemaps[i]))
                  => \E a \in discover.answers : a[1] = i
        /\ discover.out = LocsOfAnswered(1)

\* the sitemap strategy is exhausted after a child that failed and a later
\* child whose products-path <loc> texts were yielded
C18_Witness ==
    /\ discover.running = "sitemap"
    /\ discover.pc = "exhausted"
    /\ discover.out # <<>>
    /\ \E a, b \in discover.answers :
          /\ a[1] < b[1]
          /\ ~(a[2].ok /\ a[2].wellformed)
          /\ b[2].ok /\ b[2].wellformed
          /\ SelectSeq(b[2].locs, ProductsPath) # <<>>

\* C19: every listing page fetched during the crawl of a brand, and every
\* page queued, has the url path of the brand's own page.
C19_PaginationStaysOnBrandPath ==
    /\ discover.fetch.kind = "brand_page"
          => discover.fetch.url.path = discover.fetch.brand.path
    /\ \A k \in DOMAIN discover.queue :
          discover.queue[k].path = discover.brand_url.path

\* a pagination page of a brand has been fetched
C19_Witness ==
    /\ discover.fetch.kind = "brand_page"
    /\ discover.fetch.url # discover.fetch.brand
    /\ discover.fetch.url.path = discover.fetch.brand.path

\* a run that crawls brands, after the sitemap strategy or on its own
NextCrawl ==
    \/ \E strategy \in {"auto", "brands"} : StartDiscovery(strategy)
    \/ \E resp \in FewIndexResponses : FetchSitemapIndex(resp)
    \/ \E resp \in FewChildResponses : FetchChildSitemap(resp)
    \/ \E resp \in BrandIndexResponses : FetchBrandIndex(resp)
    \/ \E resp \in BrandPageResponses : FetchBrandPage(resp)
    \/ StrategyExhausted

\* the run is iterated to its end and every fetch returns or raises
SpecDiscoverLive == InitBoth /\ [][NextCrawl]_vars /\ WF_vars(NextCrawl)

MaxRetries == 4

\* min(60.0, ...)
BackoffCap == 60

\* self.throttle_seconds or 1.0
DefaultBase == 1

\* configurations of the client
Throttles == {0, 2, 20}
Jitters == {0, 2}

\* random.uniform(0, self._jitter)
JitterDraws(jitter) == IF jitter = 0 THEN {0} ELSE 0 .. (jitter - 1)

\* no target of _throttle is longer
Horizon == 22

Min(a, b) == IF a < b THEN a ELSE b

\* elapsed time, kept up to Horizon
Later(t, dt) == Min(Horizon, t + dt)

\* the statuses of the except branch that are retried
Transient_With404 == {403, 404, 429, 500, 502, 503, 504}

Transient == {403, 429, 500, 502, 503, 504}

\* attempt <= self.max_retries, with one retry more
WithinBudget_OneMore(attempt, max_retries) == attempt <= max_retries + 1

\* attempt <= self.max_retries
WithinBudget(attempt, max_retries) == attempt <= max_retries

\* the backoff without min(60.0, ...)
Backoff_Uncapped(throttle_seconds, attempt) ==
    (IF throttle_seconds = 0 THEN DefaultBase ELSE throttle_seconds)
        * 2 ^ (attempt - 1)

\* min(60.0, (self.throttle_seconds or 1.0) * (2 ** (attempt - 1)))
Backoff(throttle_seconds, attempt) ==
    Min(BackoffCap,
        (IF throttle_seconds = 0 THEN DefaultBase ELSE throttle_seconds)
            * 2 ^ (attempt - 1))

\* what self._opener.open(...) and the with block do
Response(status) == [kind |-> "response", status |-> status]
HTTPError(code) == [kind |-> "HTTPError", code |-> code]
URLError == [kind |-> "URLError"]
\* an exception that is no URLError, as response.read() may raise
OtherError == [kind |-> "other"]

Outcomes ==
    {Response(200), Response(204), HTTPError(404), HTTPError(429),
     HTTPError(503), URLError, OtherError}

\* how fetch ends
Body == [kind |-> "body"]
HttpError(url, status) == [kind |-> "HttpError", url |-> url, status |-> status]
FailedToFetch(url) == [kind |-> "RuntimeError", url |-> url]
Propagated == [kind |-> "other"]

\* time.sleep(backoff); continue
BackoffSleep(h, slept) ==
    [h EXCEPT !.waits = Append(@, Backoff(h.throttle_seconds, h.attempt)),
              !.elapsed = Later(@, slept),
              !.sinceCall = Some(Later(@[1], slept))]

\* the try block of fetch and its except branches, after attempt += 1 and
\* _throttle: h.attempt is the attempt that got outcome resp
Handle(h, resp, slept) ==
    IF resp.kind = "response"
    THEN IF resp.status # 200
         THEN [h EXCEPT !.pc = "raised", !.result = HttpError(h.url, resp.status)]
         ELSE [h EXCEPT !.pc = "returned", !.result = Body]
    ELSE IF resp.kind = "HTTPError"
    THEN IF resp.code \in Transient /\ WithinBudget(h.attempt, h.max_retries)
         THEN BackoffSleep(h, slept)
         ELSE [h EXCEPT !.pc = "raised", !.result = HttpError(h.url, resp.code)]
    ELSE IF resp.kind = "URLError"
    THEN IF WithinBudget(h.attempt, h.max_retries)
         THEN BackoffSleep(h, slept)
         ELSE [h EXCEPT !.pc = "raised", !.result = FailedToFetch(h.url)]
    ELSE [h EXCEPT !.pc = "raised", !.result = Propagated]

\* _throttle, with draw = random.uniform(0, self._jitter) and over the time
\* time.sleep sleeps longer than asked; the network call follows at once
Throttle(h, draw, over) ==
    LET target == h.throttle_seconds + draw
        sleep_for == IF h.throttle_seconds > 0 /\ h.elapsed < target
                     THEN target - h.elapsed + over ELSE 0
    IN [h EXCEPT
          !.elapsed = IF h.throttle_seconds <= 0 THEN Later(@, sleep_for) ELSE 0,
          !.gap = IF h.sinceCall = None THEN None
                  ELSE Some(Later(h.sinceCall[1], sleep_for)),
          !.target = target,
          !.sinceCall = Some(0),
          !.calls = @ + 1]

\* HttpClient(throttle_seconds=..., jitter=..., max_retries=...);
\* _last_request_time = 0.0, so that the first delta is time.monotonic()
NewClient(throttle_seconds, jitter, max_retries, uptime) ==
    /\ http.pc = "none"
    /\ http' = [http EXCEPT !.pc = "idle",
                            !.throttle_seconds = throttle_seconds,
                            !.jitter = jitter,
                            !.max_retries = max_retries,
                            !.elapsed = uptime]
    /\ UNCHANGED <<stores, last, queued, saveCalled, marked, scrape, parser, discover, extractor, images>>

\* fetch(path_or_url) is called: url = self.build_url(path_or_url); attempt = 0
StartFetch(path) ==
    /\ http.pc \in {"idle", "returned", "raised"}
    /\ http' = [http EXCEPT !.pc = "attempt",
                            !.url = build_url(Href(path, "")),
                            !.attempt = 0, !.result = None, !.response = None,
                            !.waits = <<>>, !.calls = 0]
    /\ UNCHANGED <<stores, last, queued, saveCalled, marked, scrape, parser, discover, extractor, images>>

\* time passes between two calls of fetch
Pass(dt) ==
    /\ http.pc \in {"idle", "returned", "raised"}
    /\ http' = [http EXCEPT !.elapsed = Later(@, dt),
                            !.sinceCall = IF @ = None THEN @ ELSE Some(Later(@[1], dt))]
    /\ UNCHANGED <<stores, last, queued, saveCalled, marked, scrape, parser, discover, extractor, images>>

\* one round of while True: attempt += 1, _throttle, the request that takes
\* took and gets resp, and what fetch does with it
Attempt(draw, over, took, resp) ==
    /\ http.pc = "attempt"
    /\ draw \in JitterDraws(http.jitter)
    /\ LET t == Throttle([http EXCEPT !.attempt = @ + 1], draw, over)
           h == [t EXCEPT !.elapsed = Later(@, took),
                          !.sinceCall = Some(Later(@[1], took)),
                          !.response = Some(resp)]
       IN http' = Handle(h, resp, Backoff(h.throttle_seconds, h.attempt) + over)
    /\ UNCHANGED <<stores, last, queued, saveCalled, marked, scrape, parser, discover, extractor, images>>

\* fetch calls against a server that answers in any way, with a clock that
\* only the sleeps advance
NextFetch ==
    \/ \E throttle_seconds \in Throttles, max_retries \in 0 .. MaxRetries :
            NewClient(throttle_seconds, 0, max_retries, Horizon)
    \/ \E path \in ProductPaths : StartFetch(path)
    \/ \E resp \in Outcomes : Attempt(0, 0, 0, resp)

SpecFetch == InitBoth /\ [][NextFetch]_vars

\* C21: the k-th backoff wait of a fetch call is min(60, base * 2^(k-1)),
\* base being throttle_seconds, or 1 when throttle_seconds is 0; the waits
\* never decrease and none exceeds 60.
C21_BackoffWaits ==
    \A k \in DOMAIN http.waits :
        /\ http.waits[k] =
              Min(60, (IF http.throttle_seconds = 0 THEN 1 ELSE http.throttle_seconds)
                          * 2 ^ (k - 1))
        /\ http.waits[k] <= 60
        /\ k > 1 => http.waits[k - 1] <= http.waits[k]

\* a fetch call has waited below the cap and then twice at the cap
C21_Witness ==
    /\ Len(http.waits) >= 4
    /\ http.waits[1] < http.waits[2]
    /\ http.waits[3] = 60
    /\ http.waits[4] = 60

\* every network call of a fetch call comes to its answer
SpecFetchLive == InitBoth /\ [][NextFetch]_vars /\ WF_vars(NextFetch)

\* C22: a fetch call comes to its end, after at most max_retries retries
\* whatever mix of statuses and transport failures it met: it returns the
\* body, or raises HttpError after a status and a network error after a
\* transport failure.
C22_FetchTerminates ==
    /\ (http.pc = "attempt") ~> (http.pc \in {"returned", "raised"})
    /\ [](/\ http.calls <= http.max_retries + 1
          /\ Len(http.waits) <= http.max_retries
          /\ http.pc = "returned" =>
                (http.result = Body /\ http.response = Some(Response(200)))
          /\ http.pc = "raised" =>
                IF http.response[1].kind \in {"response", "HTTPError"}
                THEN http.result.kind = "HttpError"
                ELSE http.result.kind \in {"RuntimeError", "other"})

\* a fetch call used up three retries and raised the network error
C22_Witness ==
    /\ http.pc = "raised"
    /\ http.max_retries = 3
    /\ http.calls = 4
    /\ Len(http.waits) = 3
    /\ http.result = FailedToFetch(http.url)

\* the latest network call got a status that is neither 200 nor transient
PermanentStatus(h) ==
    /\ h.response # None
    /\ \/ h.response[1].kind = "response" /\ h.response[1].status # 200
       \/ /\ h.response[1].kind = "HTTPError"
          /\ h.response[1].code \notin {403, 429, 500, 502, 503, 504}

\* the status the latest network call got
StatusOf(h) ==
    IF h.response[1].kind = "response" THEN h.response[1].status
    ELSE h.response[1].code

\* C23: the network call that gets a status other than 200 and outside
\* {403, 429, 500, 502, 503, 504} ends the fetch call: HttpError with the
\* url and the status is raised, without a backoff sleep, and the call
\* makes no network call after it.
C23_PermanentStatusNotRetried ==
    /\ [][(http.pc = "attempt" /\ PermanentStatus(http'))
             => /\ http'.pc = "raised"
                /\ http'.result = HttpError(http.url, StatusOf(http'))
                /\ http'.waits = http.waits]_vars
    /\ [](PermanentStatus(http) => http.pc = "raised")

\* the first network call of a fetch call with retries left got 404
C23_Witness ==
    /\ http.pc = "raised"
    /\ http.max_retries >= 1
    /\ http.calls = 1
    /\ http.response = Some(HTTPError(404))
    /\ http.result = HttpError(http.url, 404)

\* fetch calls of one client, with time passing between and during them
NextThrottle ==
    \/ \E throttle_seconds \in Throttles, jitter \in Jitters, uptime \in {0, Horizon} :
            NewClient(throttle_seconds, jitter, 1, uptime)
    \/ StartFetch("/products/p1")
    \/ \E dt \in {1, Horizon} : Pass(dt)
    \/ \E draw \in 0 .. 1, over \in {0, 1}, took \in {0, 1},
          resp \in {Response(200), HTTPError(503)} :
            Attempt(draw, over, took, resp)

SpecThrottle == InitBoth /\ [][NextThrottle]_vars

\* C24: every network call of a client comes at least throttle_seconds plus
\* the jitter drawn for it after the network call before it.
C24_MinimumInterval ==
    http.gap # None => http.gap[1] >= http.target

\* the same for the clients with throttle_seconds > 0
ThrottledInterval ==
    (http.throttle_seconds > 0 /\ http.gap # None) => http.gap[1] >= http.target

----------------------------------------------------------------------------

(***************************************************************************)
(* ProductHTMLParser: the handlers of the tag and text events of one       *)
(* extractor, and what parse makes of the fields they leave.                    *)
(*                                                                         *)
(* Encoding of the extractor's values                                           *)
(*   a piece of text        [text |-> s]; s = " " stands for whitespace    *)
(*   the text of a script   [json |-> v] when it is the JSON document v    *)
(*   str                    [txt |-> the sequence of its words]            *)
(*   JSON / Python list     [list |-> sequence]                            *)
(*   JSON / Python dict     [dict |-> sequence of [key, value] slots]      *)
(*   number                 [num |-> n]                                    *)
(*   an attribute value     a string, "" when the attribute is absent      *)
(*   a class token          its segments, split before each "__" and "--"  *)
(* The tooltip region of an ingredient block is followed tag by tag; the   *)
(* Tooltip step of the ingredient map above is its summary.                *)
(***************************************************************************)

Chars(s) == [text |-> s]
Txt(words) == [txt |-> words]
JList(items) == [list |-> items]
JDict(slots) == [dict |-> slots]
JNum(n) == [num |-> n]
KV(key, value) == [key |-> key, value |-> value]

IsStr(v) == "txt" \in DOMAIN v
IsList(v) == "list" \in DOMAIN v
IsDict(v) == "dict" \in DOMAIN v
IsNum(v) == "num" \in DOMAIN v

\* part.strip() is empty
IsBlank(chunk) == chunk = Chars(" ")

\* [part.strip() for part in chunks if part.strip()]
Words(chunks) == SelectSeq(chunks, LAMBDA c : ~IsBlank(c))

\* ProductHTMLParser._normalize_text, and the " ".join(...) of stripped parts
normalize_text(chunks) == Txt(Words(chunks))

\* value.strip() of an attribute value
Stripped(raw) == IF raw \in {"", " "} THEN Txt(<<>>) ELSE Txt(<<Chars(raw)>>)

\* bool(v)
Truthy(v) ==
    v \notin {Txt(<<>>), JList(<<>>), JDict(<<>>), JNum(0)}

\* a or b, on optional values
Or(a, b) == IF a # None /\ Truthy(a[1]) THEN a ELSE b

\* d.get(key) of a dict
Get(d, key) ==
    IF \E i \in DOMAIN d.dict : d.dict[i].key = key
    THEN Some(d.dict[CHOOSE i \in DOMAIN d.dict : d.dict[i].key = key].value)
    ELSE None

\* attr_map.get(name) or ""
AttrGet(t, name) ==
    IF \E p \in t.attrs : p[1] = name
    THEN (CHOOSE p \in t.attrs : p[1] = name)[2]
    ELSE ""

\* an attribute value as the ingredient map holds strings
AttrStr(raw) ==
    CASE raw = "" -> EmptyStr
      [] raw = " " -> Blank
      [] raw = "Water" -> Str("water", TRUE, FALSE)
      [] OTHER -> Str(raw, FALSE, FALSE)

\* " ".join(part.strip() for part in buffer if part.strip()) of an anchor,
\* as the ingredient map holds strings (the first word stands for the text)
LinkText(buffer) ==
    IF Words(buffer) = <<>> THEN EmptyStr
    ELSE IF "text" \in DOMAIN Words(buffer)[1] THEN AttrStr(Words(buffer)[1].text)
    ELSE Str("{}", FALSE, FALSE)

\* self._meta[key] = value
DictSet(d, key, value) == {p \in d : p[1] # key} \cup {<<key, value>>}

\* d.get(key) of a dict kept as a set of pairs
DictGetOpt(d, key) == IF key \in DictKeys(d) THEN Some(DictGet(d, key)) ELSE None

\* the prefix is the token, or the token goes on with "--" or "__"
IsPrefix(prefix, token) ==
    Len(prefix) <= Len(token) /\ SubSeq(token, 1, Len(prefix)) = prefix

\* ProductHTMLParser._class_matches
class_matches(class_set, prefix) ==
    \E token \in class_set : IsPrefix(prefix, token)

\* token.endswith("detailpage")
EndsWithDetailpage(token) ==
    token[Len(token)] \in {"detailpage", "xdetailpage", "__detailpage", "--detailpage"}

Headings == {"h1", "h2", "h3", "h4", "h5", "h6"}

\* href.startswith("/ingredients/"), href.startswith("/brand")
IngredientHref(href) == href \in {"/ingredients/water", "/ingredients/glycerin"}
BrandHref(href) == href \in {"/brands/b1", "/brand/b1"}

\* the top of a context stack with one field changed by F
OnTop(stack, F(_)) == [stack EXCEPT ![Len(stack)] = F(@)]

\* a depth counter of handle_starttag: the region opens (or nests) on its
\* marker inside the detail page, and counts every tag while it is open
Deeper(depth, opens) == IF opens \/ depth > 0 THEN depth + 1 ELSE depth

\* function_context / highlight_context of handle_starttag
BlockContext(name) ==
    [depth |-> 1, name |-> name, title_buffer |-> <<>>, body_buffer |-> <<>>,
     items |-> <<>>, item_depth |-> 0, current_item |-> <<>>,
     title_stack |-> <<>>, links |-> <<>>]

\* a block context stack of handle_starttag: a context is pushed on the
\* marker, else the open one counts the tag
Pushed(stack, opens, name) ==
    IF opens THEN Append(stack, BlockContext(name))
    ELSE IF stack # <<>> THEN OnTop(stack, LAMBDA c : [c EXCEPT !.depth = @ + 1])
    ELSE stack

\* the open block context takes a heading tag on its title_stack and counts
\* an <li>
Titled(stack, tag, tags) ==
    LET s == IF stack # <<>> /\ tag \in tags
             THEN OnTop(stack, LAMBDA c : [c EXCEPT !.title_stack = Append(@, tag)])
             ELSE stack
    IN IF s # <<>> /\ tag = "li"
       THEN OnTop(s, LAMBDA c :
                [c EXCEPT !.item_depth = @ + 1,
                          !.current_item = IF c.item_depth = 0 THEN <<>> ELSE @])
       ELSE s

DescriptionMarker == <<"detailpage", "__description">>
MaterialsMarker == <<"detailpage", "__materials">>
FunctionMarker == <<"detailpage", "__function">>
HighlightMarker == <<"detailpage", "__highlight">>
IngredientMarker == <<"detailpage", "__ingredient">>

\* is_detailpage_root of handle_starttag
is_detailpage_root(class_set) ==
    \/ class_matches(class_set, <<"detailpage">>)
    \/ \E token \in class_set : EndsWithDetailpage(token)

\* the regions of handle_starttag that the tag t opens when it is inside
\* the detail page
Opens(t) ==
    {r \in {"description", "materials", "function", "highlight", "ingredient"} :
        \/ r = "description" /\ class_matches(t.classes, DescriptionMarker)
        \/ r = "materials" /\ class_matches(t.classes, MaterialsMarker)
        \/ r = "function" /\ (\/ class_matches(t.classes, FunctionMarker)
                              \/ AttrGet(t, "data-function") # "")
        \/ r = "highlight" /\ (\/ class_matches(t.classes, HighlightMarker)
                               \/ <<"highlight">> \in t.classes)
        \/ r = "ingredient" /\ class_matches(t.classes, IngredientMarker)}

\* the regions that handle_starttag opens on the tag t: inside_detailpage is
\* self._detailpage_depth > 0 after the tag itself was counted
Opened(x, t) ==
    IF Deeper(x.detailpage_depth, is_detailpage_root(t.classes)) > 0
    THEN Opens(t) ELSE {}

\* ProductHTMLParser.handle_starttag: script / meta / h1
StartHead(x, t) ==
    IF t.tag = "script" /\ AttrGet(t, "type") = "application/ld+json"
    THEN [x EXCEPT !.in_json_ld = TRUE, !.json_buffer = <<>>]
    ELSE IF t.tag = "meta"
    THEN LET named == IF AttrGet(t, "property") # "" THEN AttrGet(t, "property")
                      ELSE AttrGet(t, "name")
             content == AttrGet(t, "content")
         IN IF named \notin {"", " "} /\ content # ""
            THEN [x EXCEPT !.meta = DictSet(@, named, Stripped(content))]
            ELSE x
    ELSE IF t.tag = "h1"
    THEN [x EXCEPT !.in_h1 = TRUE, !.current_text = <<>>]
    ELSE x

\* attr_map.get(a) or attr_map.get(b) or ...
TitleAttr(t, names) ==
    IF \E k \in DOMAIN names : AttrGet(t, names[k]) # ""
    THEN AttrGet(t, names[CHOOSE k \in DOMAIN names :
                              /\ AttrGet(t, names[k]) # ""
                              /\ \A j \in 1..(k - 1) : AttrGet(t, names[j]) = ""])
    ELSE ""

\* tooltip_match of handle_starttag
tooltip_match(t) ==
    \/ class_matches(t.classes, <<"tooltip">>)
    \/ class_matches(t.classes, <<"ingredient-tooltip">>)
    \/ AttrGet(t, "data-tooltip") # ""

\* ProductHTMLParser.handle_starttag: the tooltip of the open ingredient
\* block (current_ingredient)
StartTooltip(x, t) ==
    IF x.ingredient_context_stack = <<>> THEN x
    ELSE LET c == x.ingredient_context_stack[Len(x.ingredient_context_stack)]
             title_attr == TitleAttr(t, <<"data-title", "title", "data-tooltip-title">>)
             href == AttrGet(t, "href")
             counted ==
                 IF tooltip_match(t)
                 THEN IF c.tooltip_depth = 0
                      THEN [c EXCEPT
                              !.tooltip_depth = 1,
                              !.tooltip_body_parts = <<>>,
                              !.tooltip_links = <<>>,
                              !.tooltip_title_parts =
                                  IF title_attr # "" THEN Append(@, Chars(title_attr))
                                  ELSE @]
                      ELSE [c EXCEPT !.tooltip_depth = @ + 1]
                 ELSE IF c.tooltip_depth > 0 THEN [c EXCEPT !.tooltip_depth = @ + 1]
                 ELSE c
             titled ==
                 IF /\ counted.tooltip_depth > 0
                    /\ \/ class_matches(t.classes, <<"tooltip", "__title">>)
                       \/ AttrGet(t, "data-role") = "title"
                       \/ t.tag \in {"strong", "b"} \cup Headings
                 THEN [counted EXCEPT !.tooltip_title_stack = Append(@, t.tag)]
                 ELSE counted
             linked ==
                 IF titled.tooltip_depth > 0 /\ t.tag = "a"
                 THEN [titled EXCEPT
                         !.tooltip_links = IF href # "" THEN Append(@, Urljoin(AttrStr(href)))
                                           ELSE @,
                         !.tooltip_anchor_depth = @ + 1]
                 ELSE titled
         IN [x EXCEPT !.ingredient_context_stack = OnTop(@, LAMBDA d : linked)]

\* ProductHTMLParser.handle_starttag: the depth counters and context stacks
\* of the regions
StartRegions(x, t) ==
    LET depth == Deeper(x.detailpage_depth, is_detailpage_root(t.classes))
        opens == Opened(x, t)
        materials_depth == Deeper(x.materials_depth, "materials" \in opens)
        in_item == materials_depth > 0 /\ t.tag = "li"
        function_name == IF AttrGet(t, "data-function") \in {"", " "} THEN None
                         ELSE Some(Stripped(AttrGet(t, "data-function")))
        name_attr == IF AttrGet(t, "data-name") # "" THEN AttrGet(t, "data-name")
                     ELSE AttrGet(t, "data-ingredient-name")
        context == IngredientContext(AttrStr(AttrGet(t, "data-ingredient-url")),
                                     AttrStr(name_attr),
                                     AttrStr(AttrGet(t, "data-tooltip-text")))
    IN [x EXCEPT
          !.detailpage_depth = depth,
          !.description_depth = Deeper(@, "description" \in opens),
          !.description_buffer =
              IF "description" \in opens /\ x.description_depth = 0 THEN <<>> ELSE @,
          !.materials_depth = materials_depth,
          !.current_material_text =
              IF in_item /\ x.current_material_item_depth = 0 THEN <<>> ELSE @,
          !.current_material_item_depth = IF in_item THEN @ + 1 ELSE @,
          !.function_context_stack =
              Titled(Pushed(@, "function" \in opens, function_name), t.tag, Headings),
          !.highlight_context_stack =
              Titled(Pushed(@, "highlight" \in opens, None), t.tag,
                     Headings \cup {"strong"}),
          !.ingredient_context_stack =
              IF "ingredient" \in opens
              THEN Append(@, [depth |-> 1, key |-> context.key,
                              name_hint |-> context.name_hint,
                              url_hint |-> context.url_hint,
                              tooltip_depth |-> 0,
                              tooltip_body_parts |-> <<>>,
                              tooltip_title_parts |->
                                  IF TitleAttr(t, <<"data-tooltip-title", "data-title">>) # ""
                                  THEN <<Chars(TitleAttr(t, <<"data-tooltip-title",
                                                              "data-title">>))>>
                                  ELSE <<>>,
                              tooltip_links |-> <<>>,
                              tooltip_title_stack |-> <<>>,
                              tooltip_anchor_depth |-> 0,
                              data_tooltip_text |-> context.data_tooltip_text,
                              data_tooltip_link |->
                                  AttrStr(AttrGet(t, "data-tooltip-link"))])
              ELSE IF @ # <<>> THEN OnTop(@, LAMBDA c : [c EXCEPT !.depth = @ + 1])
              ELSE @]

\* ProductHTMLParser.handle_starttag: if tag == "a"
StartAnchor(x, t) ==
    LET href == AttrGet(t, "href")
        data_name == AttrStr(IF AttrGet(t, "data-name") # "" THEN AttrGet(t, "data-name")
                             ELSE AttrGet(t, "title"))
        full_url == Urljoin(AttrStr(href))
    IN IF t.tag # "a" THEN x
       ELSE IF IngredientHref(href)
       THEN [x EXCEPT
               !.link_href_stack = Append(@, href),
               !.current_link_type = "ingredient",
               !.current_link_href = href,
               !.link_text_buffer = <<>>,
               !.ingredients =
                   IF data_name # EmptyStr
                   THEN SetItem(@, ingredient_key(full_url, data_name),
                                Ingredient(Strip(data_name), full_url, {}))
                   ELSE @]
       ELSE IF BrandHref(href)
       THEN [x EXCEPT
               !.link_href_stack = Append(@, href),
               !.brand_links = @ \cup {href},
               !.current_link_type = "brand",
               !.current_link_href = href,
               !.link_text_buffer = <<>>]
       ELSE [x EXCEPT
               !.link_href_stack = Append(@, href),
               !.current_link_type = "",
               !.current_link_href = "",
               !.link_text_buffer = <<>>]

\* ProductHTMLParser.handle_starttag
handle_starttag(x, t) ==
    StartAnchor(StartTooltip(StartRegions(StartHead(x, t), t), t), t)

\* ProductHTMLParser.handle_endtag: the script / h1 / a branches
EndHead(x, tag) ==
    IF tag = "script" /\ x.in_json_ld
    THEN [x EXCEPT !.in_json_ld = FALSE,
                   !.json_ld_blocks = IF Words(x.json_buffer) # <<>>
                                      THEN Append(@, Words(x.json_buffer)) ELSE @]
    ELSE IF tag = "h1" /\ x.in_h1
    THEN [x EXCEPT !.in_h1 = FALSE,
                   !.title = IF Words(x.current_text) # <<>>
                             THEN Some(normalize_text(x.current_text)) ELSE @]
    ELSE IF tag = "a"
    THEN LET text == LinkText(x.link_text_buffer)
             href_raw == IF x.link_href_stack # <<>>
                         THEN x.link_href_stack[Len(x.link_href_stack)]
                         ELSE x.current_link_href
             full_url == Urljoin(AttrStr(x.current_link_href))
             key == ingredient_key(full_url, text)
             i == Slot(x.ingredients, key)
             ingredient == x.current_link_type = "ingredient" /\ x.current_link_href # ""
             brand == /\ x.current_link_type = "brand" /\ text # EmptyStr
                      /\ x.current_link_href # ""
             Linked(stack) ==
                 IF href_raw # "" /\ stack # <<>>
                 THEN OnTop(stack, LAMBDA c : [c EXCEPT !.links = Append(@, href_raw)])
                 ELSE stack
         IN [x EXCEPT
               !.link_href_stack = IF @ # <<>> THEN SubSeq(@, 1, Len(@) - 1) ELSE @,
               !.ingredients =
                   IF ~ingredient THEN @
                   ELSE IF i = 0
                   THEN SetItem(@, key,
                            Ingredient(IF text # EmptyStr THEN text
                                       ELSE SlugTitle(AttrStr(x.current_link_href)),
                                       full_url, {}))
                   ELSE IF text # EmptyStr THEN [@ EXCEPT ![i].value.name = text]
                   ELSE @,
               !.ingredient_context_stack =
                   IF ingredient /\ @ # <<>>
                   THEN OnTop(@, LAMBDA c :
                           AnchorContext(c, AttrStr(x.current_link_href), text))
                   ELSE @,
               !.brand_links = IF brand THEN @ \cup {x.current_link_href} ELSE @,
               !.meta = IF brand /\ "brand:text" \notin DictKeys(@)
                        THEN @ \cup {<<"brand:text", normalize_text(x.link_text_buffer)>>}
                        ELSE @,
               !.function_context_stack = Linked(@),
               !.highlight_context_stack = Linked(@),
               !.current_link_type = "",
               !.current_link_href = "",
               !.link_text_buffer = <<>>]
    ELSE x

\* the entry of a function or highlight block that closes: name is the
\* name of a function (context name or title) or the title of a highlight
BlockEntry(c) ==
    [name |-> IF c.name # None THEN c.name
              ELSE IF Words(c.title_buffer) # <<>>
              THEN Some(normalize_text(c.title_buffer)) ELSE None,
     items |-> c.items,
     text |-> IF Words(c.body_buffer) # <<>>
              THEN Some(normalize_text(c.body_buffer)) ELSE None,
     links |-> Range(c.links)]

\* if entry:
EmptyEntry(e) == e.name = None /\ e.items = <<>> /\ e.text = None /\ e.links = {}

\* ProductHTMLParser.handle_endtag on the open function or highlight block:
\* the stack after the tag and the entries with the block's own, if it
\* closes and has one
EndBlock(stack, entries, tag) ==
    IF stack = <<>> THEN [stack |-> stack, entries |-> entries]
    ELSE LET c == stack[Len(stack)]
             closes_item == tag = "li" /\ c.item_depth = 1
             d == [c EXCEPT
                     !.item_depth = IF tag = "li" /\ @ > 0 THEN @ - 1 ELSE @,
                     !.items = IF closes_item /\ Words(c.current_item) # <<>>
                               THEN Append(@, normalize_text(c.current_item)) ELSE @,
                     !.current_item = IF closes_item THEN <<>> ELSE @,
                     !.title_stack = IF @ # <<>> /\ @[Len(@)] = tag
                                     THEN SubSeq(@, 1, Len(@) - 1) ELSE @,
                     !.depth = @ - 1]
         IN IF d.depth = 0
            THEN [stack |-> SubSeq(stack, 1, Len(stack) - 1),
                  entries |-> IF EmptyEntry(BlockEntry(d)) THEN entries
                              ELSE Append(entries, BlockEntry(d))]
            ELSE [stack |-> [stack EXCEPT ![Len(stack)] = d], entries |-> entries]

\* the extra of the tooltip that closes: title and body are the normalized
\* parts, data-tooltip-text fills tooltip_text when the body gave none, and
\* data-tooltip-link joins the links
ClosedTooltipExtra(c) ==
    LET title == normalize_text(c.tooltip_title_parts)
        body == normalize_text(c.tooltip_body_parts)
        links == {link \in Range(c.tooltip_links) : link # EmptyStr}
                    \cup (IF c.data_tooltip_link # EmptyStr
                          THEN {Urljoin(c.data_tooltip_link)} ELSE {})
    IN (IF Words(c.tooltip_title_parts) # <<>> THEN {<<"tooltip_title", title>>} ELSE {})
       \cup (IF Words(c.tooltip_body_parts) # <<>> THEN {<<"tooltip_text", body>>}
             ELSE IF c.data_tooltip_text # EmptyStr
             THEN {<<"tooltip_text", Strip(c.data_tooltip_text)>>} ELSE {})
       \cup (IF links \ {EmptyStr} # {} THEN {<<"tooltip_links", [links |-> links \ {EmptyStr}]>>}
             ELSE {})

\* the extra registered when the ingredient block itself closes:
\* data-tooltip-text and the list of the data-tooltip-link alone
ClosedBlockExtra(c) ==
    BlockExtra(c)
        \cup (IF c.data_tooltip_link # EmptyStr
              THEN {<<"tooltip_links", [links |-> {Urljoin(c.data_tooltip_link)}]>>}
              ELSE {})

\* ProductHTMLParser.handle_endtag on the open ingredient block while its
\* tooltip is open: the ingredient map and the context after the tag
EndTooltip(m, c, tag) ==
    IF c.tooltip_depth = 0 THEN [ingredients |-> m, context |-> c]
    ELSE LET d == [c EXCEPT
                     !.tooltip_anchor_depth = IF tag = "a" /\ @ > 0 THEN @ - 1 ELSE @,
                     !.tooltip_title_stack = IF @ # <<>> /\ @[Len(@)] = tag
                                             THEN SubSeq(@, 1, Len(@) - 1) ELSE @,
                     !.tooltip_depth = @ - 1]
         IN IF d.tooltip_depth > 0 THEN [ingredients |-> m, context |-> d]
            ELSE [ingredients |->
                      register_ingredient_extra(m, d.key, ClosedTooltipExtra(d),
                                                d.name_hint, d.url_hint),
                  context |-> [d EXCEPT !.tooltip_body_parts = <<>>,
                                        !.tooltip_title_parts = <<>>,
                                        !.tooltip_links = <<>>,
                                        !.tooltip_anchor_depth = 0]]

\* ProductHTMLParser.handle_endtag: the regions
EndRegions(x, tag) ==
    LET closes_item == /\ x.materials_depth > 0 /\ tag = "li"
                       /\ x.current_material_item_depth = 1
        functions == EndBlock(x.function_context_stack, x.function_entries, tag)
        highlights == EndBlock(x.highlight_context_stack, x.highlight_entries, tag)
        ingredient_closes ==
            /\ x.ingredient_context_stack # <<>>
            /\ x.ingredient_context_stack[Len(x.ingredient_context_stack)].depth <= 1
        tooltip == EndTooltip(x.ingredients,
                              x.ingredient_context_stack[Len(x.ingredient_context_stack)],
                              tag)
        context == tooltip.context
    IN [x EXCEPT
          !.current_material_item_depth =
              IF x.materials_depth > 0 /\ tag = "li" /\ @ > 0 THEN @ - 1 ELSE @,
          !.material_entries =
              IF closes_item /\ Words(x.current_material_text) # <<>>
              THEN Append(@, normalize_text(x.current_material_text)) ELSE @,
          !.current_material_text = IF closes_item THEN <<>> ELSE @,
          !.materials_depth = IF @ > 0 THEN @ - 1 ELSE @,
          !.description_depth = IF @ > 0 THEN @ - 1 ELSE @,
          !.detail_description =
              IF x.description_depth = 1 /\ Words(x.description_buffer) # <<>>
              THEN Some(normalize_text(x.description_buffer)) ELSE @,
          !.description_buffer = IF x.description_depth = 1 THEN <<>> ELSE @,
          !.function_context_stack = functions.stack,
          !.function_entries = functions.entries,
          !.highlight_context_stack = highlights.stack,
          !.highlight_entries = highlights.entries,
          !.ingredients =
              IF x.ingredient_context_stack = <<>> THEN @
              ELSE IF ingredient_closes
              THEN register_ingredient_extra(tooltip.ingredients, context.key,
                       ClosedBlockExtra(context),
                       context.name_hint, context.url_hint)
              ELSE tooltip.ingredients,
          !.ingredient_context_stack =
              IF @ = <<>> THEN @
              ELSE IF ingredient_closes THEN SubSeq(@, 1, Len(@) - 1)
              ELSE OnTop(@, LAMBDA c : [context EXCEPT !.depth = @ - 1]),
          !.detailpage_depth = IF @ > 0 THEN @ - 1 ELSE @]

\* ProductHTMLParser.handle_endtag
handle_endtag(x, tag) == EndRegions(EndHead(x, tag), tag)

\* the open function or highlight block takes the text on the buffer of the
\* list item before that of the title
BlockData_ItemFirst(stack, data) ==
    IF stack = <<>> THEN stack
    ELSE OnTop(stack, LAMBDA c :
            IF c.item_depth > 0 THEN [c EXCEPT !.current_item = Append(@, data)]
            ELSE IF c.title_stack # <<>> THEN [c EXCEPT !.title_buffer = Append(@, data)]
            ELSE [c EXCEPT !.body_buffer = Append(@, data)])

\* the open function or highlight block takes the text
BlockData(stack, data) ==
    IF stack = <<>> THEN stack
    ELSE OnTop(stack, LAMBDA c :
            IF c.title_stack # <<>> THEN [c EXCEPT !.title_buffer = Append(@, data)]
            ELSE IF c.item_depth > 0 THEN [c EXCEPT !.current_item = Append(@, data)]
            ELSE [c EXCEPT !.body_buffer = Append(@, data)])

\* the tooltip of the open ingredient block takes the text, unless the text
\* is inside an anchor of the tooltip
TooltipData(stack, data) ==
    IF stack = <<>> THEN stack
    ELSE OnTop(stack, LAMBDA c :
            IF c.tooltip_depth = 0 \/ c.tooltip_anchor_depth # 0 THEN c
            ELSE IF c.tooltip_title_stack # <<>>
            THEN [c EXCEPT !.tooltip_title_parts = Append(@, data)]
            ELSE [c EXCEPT !.tooltip_body_parts = Append(@, data)])

\* ProductHTMLParser.handle_data
handle_data(x, data) ==
    [x EXCEPT
       !.json_buffer = IF x.in_json_ld THEN Append(@, data) ELSE @,
       !.current_text = IF x.in_h1 THEN Append(@, data) ELSE @,
       !.link_text_buffer = IF x.current_link_type # "" THEN Append(@, data) ELSE @,
       !.description_buffer = IF x.description_depth > 0 THEN Append(@, data) ELSE @,
       !.current_material_text =
           IF x.current_material_item_depth > 0 THEN Append(@, data) ELSE @,
       !.function_context_stack = BlockData(@, data),
       !.highlight_context_stack = BlockData(@, data),
       !.ingredient_context_stack = TooltipData(@, data)]

\* HTMLParser.goahead on one piece of the markup: in CDATA mode everything
\* up to the end tag of the element is text; a <script> or <style> start
\* tag sets the mode
Dispatch(x, t) ==
    IF x.cdata_elem # None
    THEN IF t.kind = "end" /\ t.tag = x.cdata_elem[1]
         THEN handle_endtag([x EXCEPT !.cdata_elem = None], t.tag)
         ELSE handle_data(x, IF t.kind = "data" THEN t.data ELSE Chars("<"))
    ELSE IF t.kind = "start"
    THEN [handle_starttag(x, t) EXCEPT
             !.cdata_elem = IF t.tag \in {"script", "style"} THEN Some(t.tag) ELSE @]
    ELSE IF t.kind = "end" THEN handle_endtag(x, t.tag)
    ELSE handle_data(x, t.data)

\* ProductHTMLParser._iter_json_nodes: the dicts of a document, depth first
RECURSIVE iter_json_nodes(_)
RECURSIVE IterItems(_, _)
iter_json_nodes(node) ==
    IF IsDict(node)
    THEN <<node>> \o IterItems([k \in DOMAIN node.dict |-> node.dict[k].value], 1)
    ELSE IF IsList(node) THEN IterItems(node.list, 1)
    ELSE <<>>

IterItems(items, k) ==
    IF k > Len(items) THEN <<>>
    ELSE iter_json_nodes(items[k]) \o IterItems(items, k + 1)

\* node.get("@type") in {"Product", "ProductGroup"} raises TypeError when the
\* value is a list or a dict (unhashable)
Unhashable(node) ==
    Get(node, "@type") # None
        /\ (IsList(Get(node, "@type")[1]) \/ IsDict(Get(node, "@type")[1]))

IsProduct(node) ==
    Get(node, "@type") \in {Some(Txt(<<Chars("Product")>>)),
                            Some(Txt(<<Chars("ProductGroup")>>))}

\* for node in self._iter_json_nodes(parsed): ... break
RECURSIVE FirstProduct(_, _)
FirstProduct(nodes, k) ==
    IF k > Len(nodes) THEN [node |-> None, raised |-> FALSE]
    ELSE IF Unhashable(nodes[k]) THEN [node |-> None, raised |-> TRUE]
    ELSE IF IsProduct(nodes[k]) THEN [node |-> Some(nodes[k]), raised |-> FALSE]
    ELSE FirstProduct(nodes, k + 1)

\* json.loads(block) does not raise JSONDecodeError: the block is one JSON
\* document, with nothing but whitespace around it
WellFormed(block) == Len(block) = 1 /\ "json" \in DOMAIN block[1]

\* except json.JSONDecodeError: break
AfterMalformed_Break(blocks, k) == Len(blocks) + 1

\* except json.JSONDecodeError: continue
AfterMalformed(blocks, k) == k + 1

\* for block in self._json_ld_blocks: ...
RECURSIVE SearchBlocks(_, _)
SearchBlocks(blocks, k) ==
    IF k > Len(blocks) THEN [node |-> None, raised |-> FALSE]
    ELSE IF ~WellFormed(blocks[k]) THEN SearchBlocks(blocks, AfterMalformed(blocks, k))
    ELSE LET r == FirstProduct(iter_json_nodes(Loads(blocks[k][1])), 1)
         IN IF r.raised \/ r.node # None THEN r ELSE SearchBlocks(blocks, k + 1)

\* ProductHTMLParser._first_of
first_of(v) ==
    IF v # None /\ IsList(v[1])
    THEN IF v[1].list # <<>> THEN Some(v[1].list[1]) ELSE None
    ELSE v

\* a str of the page as the ingredient map holds strings
ToStr(v) ==
    IF v = None \/ ~IsStr(v[1]) \/ v[1].txt = <<>> THEN EmptyStr
    ELSE AttrStr(v[1].txt[1].text)

\* item.get("name") or item.get("@id") or item.get("identifier")
ItemName(item) == Or(Or(Get(item, "name"), Get(item, "@id")), Get(item, "identifier"))

\* a dict item with a name that is no str: name.strip() / name.lower() raises
\* AttributeError
BadItem(item) ==
    /\ IsDict(item)
    /\ ItemName(item) # None
    /\ Truthy(ItemName(item)[1])
    /\ ~IsStr(ItemName(item)[1])

\* the items of the linked-data ingredient list as JsonLdIngredients takes
\* them; items that are neither dict nor str are passed over
IngredientItems(ingredient_data) ==
    IF ingredient_data = None THEN <<>>
    ELSE IF IsList(ingredient_data[1])
    THEN LET kept == SelectSeq(ingredient_data[1].list,
                               LAMBDA item : IsDict(item) \/ IsStr(item))
         IN [k \in DOMAIN kept |->
                IF IsDict(kept[k])
                THEN [name |-> ToStr(Get(kept[k], "name")),
                      id |-> ToStr(Get(kept[k], "@id")),
                      url |-> ToStr(Get(kept[k], "url"))]
                ELSE [str |-> ToStr(Some(kept[k]))]]
    ELSE IF IsStr(ingredient_data[1]) /\ ingredient_data[1].txt # <<>>
    THEN <<[str |-> ToStr(ingredient_data)]>>
    ELSE <<>>

\* product.name, with the h1 text before the linked-data name
name_of_TitleFirst(linked, title, og, twitter) ==
    Or(title, Or(Or(linked, None), Or(og, twitter)))

\* product.name = json_ld_data.get("name") or product.name; if not
\* product.name: self.title or og:title or twitter:title
name_of(linked, title, og, twitter) ==
    IF Or(linked, None) # None THEN linked
    ELSE Or(title, Or(og, twitter))

\* product.description, without the elif branch
description_of_LinkedFirst(linked, detail, og, meta) ==
    IF Or(linked, None) # None THEN linked
    ELSE Or(detail, Or(og, meta))

\* product.description = json_ld_data.get("description") or ...; if not
\* product.description: detail or og:description or description; elif
\* self._detail_description: detail
description_of(linked, detail, og, meta) ==
    IF Or(linked, None) = None THEN Or(detail, Or(og, meta))
    ELSE IF Or(detail, None) # None THEN detail
    ELSE linked

\* slug.replace("-", " ").title() of the first brand link
BrandSlug(links) == Txt(<<Chars("B1")>>)

\* ProductHTMLParser.parse after self.feed(html) and self.close()
parse_product(x, url) ==
    LET found == SearchBlocks(x.json_ld_blocks, 1)
        G(key) == IF found.node = None THEN None ELSE Get(found.node[1], key)
        M(key) == DictGetOpt(x.meta, key)
        brand_info == G("brand")
        brand == IF brand_info # None /\ IsDict(brand_info[1])
                 THEN Or(Or(Get(brand_info[1], "name"), Get(brand_info[1], "brand")), None)
                 ELSE IF brand_info # None /\ IsStr(brand_info[1]) THEN brand_info
                 ELSE None
        image == Or(first_of(G("image")), None)
        agg == G("aggregateRating")
        Rating(key) == IF agg # None /\ IsDict(agg[1]) /\ Get(agg[1], key) # None
                          /\ IsNum(Get(agg[1], key)[1])
                       THEN Get(agg[1], key) ELSE None
        category == G("category")
        ingredient_data == Or(Or(G("hasIngredient"), G("ingredient")), G("ingredients"))
        bad == /\ ingredient_data # None
               /\ IsList(ingredient_data[1])
               /\ \E k \in DOMAIN ingredient_data[1].list :
                      BadItem(ingredient_data[1].list[k])
        m == JsonLdIngredients(x.ingredients, IngredientItems(ingredient_data), 1)
    IN IF found.raised THEN [raised |-> TRUE, error |-> "TypeError"]
       ELSE IF bad THEN [raised |-> TRUE, error |-> "AttributeError"]
       ELSE [raised |-> FALSE,
             product |->
               [url |-> url,
                name |-> name_of(G("name"), x.title, M("og:title"), M("twitter:title")),
                brand |-> IF Or(brand, None) # None THEN brand
                          ELSE IF M("brand:text") # None THEN M("brand:text")
                          ELSE IF x.brand_links # {} THEN Some(BrandSlug(x.brand_links))
                          ELSE brand,
                description |-> description_of(G("description"), x.detail_description,
                                               M("og:description"), M("description")),
                image_url |-> IF image # None THEN image
                              ELSE Or(M("og:image"), M("twitter:image")),
                rating_value |-> Rating("ratingValue"),
                rating_count |-> Rating("ratingCount"),
                categories |-> IF category # None /\ IsList(category[1])
                               THEN category[1].list
                               ELSE IF category # None /\ IsStr(category[1])
                               THEN <<category[1]>>
                               ELSE <<>>,
                ingredients |-> Dedup(NoDedup, m, 1).list,
                materials |-> x.material_entries,
                functions |-> x.function_entries,
                highlights |-> x.highlight_entries,
                json_ld |-> found.node,
                raw_brand_links |-> x.brand_links]]

(* The markup of a page, as the events HTMLParser.feed makes of it *)

StartTag(tag, classes, attrs) ==
    [kind |-> "start", tag |-> tag, classes |-> classes, attrs |-> attrs,
     data |-> Chars("")]
EndTag(tag) ==
    [kind |-> "end", tag |-> tag, classes |-> {}, attrs |-> {}, data |-> Chars("")]
Data(chunk) ==
    [kind |-> "data", tag |-> "", classes |-> {}, attrs |-> {}, data |-> chunk]

Meta(named, content) ==
    StartTag("meta", {}, {<<"property", named>>, <<"content", content>>})

ScriptLd == StartTag("script", {}, {<<"type", "application/ld+json">>})
RootDiv == StartTag("div", {<<"detailpage">>}, {})
DescriptionDiv == StartTag("div", {DescriptionMarker}, {})
FunctionDiv == StartTag("div", {}, {<<"data-function", "Humectant">>})
HighlightDiv == StartTag("div", {<<"highlight">>}, {})
IngredientDiv == StartTag("div", {IngredientMarker}, {<<"data-name", "Water">>})
PlainDiv == StartTag("div", {}, {})

S(word) == Txt(<<Chars(word)>>)

\* linked-data documents
DocProduct ==
    JDict(<<KV("@type", S("Product")), KV("name", S("N")),
            KV("description", S("D"))>>)
DocUnnamed == JDict(<<KV("@type", S("Product")), KV("name", S(""))>>)
DocGroup ==
    JDict(<<KV("@type", S("WebPage")),
            KV("@graph", JList(<<JDict(<<KV("@type", S("Brand"))>>),
                                 JDict(<<KV("@type", S("ProductGroup")),
                                         KV("name", S("G"))>>),
                                 JDict(<<KV("@type", S("Product")),
                                         KV("name", S("N"))>>)>>))>>)
DocOther == JDict(<<KV("@type", S("WebPage")), KV("name", S("W"))>>)
DocTypeList ==
    JDict(<<KV("@type", JList(<<S("Product")>>)), KV("name", S("N"))>>)
DocNumberName ==
    JDict(<<KV("@type", S("Product")),
            KV("hasIngredient", JList(<<JDict(<<KV("name", JNum(5))>>)>>))>>)
DocOddFields ==
    JDict(<<KV("@type", S("Product")), KV("name", JDict(<<KV("en", S("N"))>>)),
            KV("description", JList(<<S("D")>>)),
            KV("hasIngredient", JList(<<JNum(7), S("Water")>>))>>)

\* the text of a script that json.loads rejects
Malformed == Chars("{")

\* the events of one page
MaxEvents == 6

\* the parse calls on one instance
MaxParses == 2

PageUrls == {"/products/p1", "/products/p2"}

\* elements without an end tag
VoidTags == {"br", "img", "meta"}

\* markup without anything the extractor looks for
PlainTokens == {PlainDiv, EndTag("div"), Data(Chars("T"))}

\* the open elements after an end tag: the nearest open element of that tag
\* closes with everything inside it; an end tag without one is dropped
Closed(open, tag) ==
    IF \E k \in DOMAIN open : open[k].tag = tag
    THEN SubSeq(open, 1,
                (CHOOSE k \in DOMAIN open :
                    /\ open[k].tag = tag
                    /\ \A j \in DOMAIN open : open[j].tag = tag => j <= k) - 1)
    ELSE open

\* HTMLParser.feed hands one piece of the markup to the instance x that is
\* reused and to the fresh instance y; open and outside follow the elements
\* of the markup that x sees as tags
Fed(t) ==
    LET x == extractor.x
        tagged == x.cdata_elem = None
    IN [extractor EXCEPT
          !.n = @ + 1,
          !.x = Dispatch(x, t),
          !.y = Dispatch(extractor.y, t),
          !.open = IF ~tagged THEN IF t.kind = "end" /\ t.tag = x.cdata_elem[1]
                                   THEN Closed(@, t.tag) ELSE @
                   ELSE IF t.kind = "start" /\ t.tag \notin VoidTags
                   THEN Append(@, [tag |-> t.tag, root |-> is_detailpage_root(t.classes),
                                   regions |-> Opened(x, t)])
                   ELSE IF t.kind = "end" THEN Closed(@, t.tag)
                   ELSE @,
          !.plain = @ /\ t \in PlainTokens,
          !.outside = IF tagged /\ t.kind = "start"
                         /\ ~\E k \in DOMAIN extractor.open : extractor.open[k].root
                      THEN @ \cup Opened(x, t) ELSE @]

\* parse(html, url) on a new ProductHTMLParser: self._reset_state()
NewParse(url) ==
    /\ extractor.pc = "idle"
    /\ extractor' = [NoPage EXCEPT !.pc = "feed", !.parses = 1, !.url = url]
    /\ UNCHANGED <<stores, last, queued, saveCalled, marked, scrape, parser, discover, http, images>>

\* parse(html, url) on the instance that returned from a parse, next to a
\* new instance: self._reset_state()
ParseAgain(url) ==
    /\ extractor.pc = "done"
    /\ extractor.parses < MaxParses
    /\ extractor' = [NoPage EXCEPT !.pc = "feed", !.parses = extractor.parses + 1, !.url = url,
                             !.x = ResetState(extractor.x.cdata_elem)]
    /\ UNCHANGED <<stores, last, queued, saveCalled, marked, scrape, parser, discover, http, images>>

\* self.feed(html): a start tag
HandleStartTag(t) ==
    /\ extractor.pc = "feed"
    /\ extractor.n < MaxEvents
    /\ t.kind = "start"
    /\ extractor' = Fed(t)
    /\ UNCHANGED <<stores, last, queued, saveCalled, marked, scrape, parser, discover, http, images>>

\* self.feed(html): an end tag
HandleEndTag(t) ==
    /\ extractor.pc = "feed"
    /\ extractor.n < MaxEvents
    /\ t.kind = "end"
    /\ extractor' = Fed(t)
    /\ UNCHANGED <<stores, last, queued, saveCalled, marked, scrape, parser, discover, http, images>>

\* self.feed(html): a piece of text
HandleData(t) ==
    /\ extractor.pc = "feed"
    /\ extractor.n < MaxEvents
    /\ t.kind = "data"
    /\ extractor' = Fed(t)
    /\ UNCHANGED <<stores, last, queued, saveCalled, marked, scrape, parser, discover, http, images>>

\* self.close() and the rest of parse: the Product, or the exception that
\* leaves parse
ReturnProduct ==
    /\ extractor.pc = "feed"
    /\ extractor' = [extractor EXCEPT !.pc = "done",
                            !.out = Some(parse_product(extractor.x, extractor.url)),
                            !.ref = Some(parse_product(extractor.y, extractor.url))]
    /\ UNCHANGED <<stores, last, queued, saveCalled, marked, scrape, parser, discover, http, images>>

NameTokens ==
    {ScriptLd, EndTag("script"), Data(Dumps(DocProduct)), Data(Dumps(DocUnnamed)),
     StartTag("h1", {}, {}), EndTag("h1"), Data(Chars("T")),
     Meta("og:title", "OG"), Meta("twitter:title", "TW")}

DescriptionTokens ==
    {ScriptLd, EndTag("script"), Data(Dumps(DocProduct)), Data(Dumps(DocUnnamed)),
     RootDiv, DescriptionDiv, EndTag("div"), Data(Chars("T")),
     Meta("og:description", "OG"), Meta("description", "MD")}

LinkedTokens ==
    {ScriptLd, EndTag("script"), Data(Dumps(DocProduct)), Data(Dumps(DocGroup)),
     Data(Dumps(DocOther)), Data(Malformed)}

ReuseTokens ==
    {ScriptLd, EndTag("script"), Data(Dumps(DocProduct)),
     RootDiv, DescriptionDiv, StartTag("a", {}, {<<"href", "/ingredients/water">>}),
     Data(Chars("Water"))}

FragileTokens ==
    {ScriptLd, EndTag("script"), Data(Dumps(DocTypeList)), Data(Dumps(DocNumberName)),
     Data(Dumps(DocOddFields)), PlainDiv, DescriptionDiv, EndTag("div"),
     Data(Chars("T"))}

RegionTokens ==
    {RootDiv, StartTag("br", {}, {}), DescriptionDiv, FunctionDiv, HighlightDiv,
     IngredientDiv, EndTag("div"), Data(Chars("T"))}

NextName ==
    \/ \E url \in PageUrls : NewParse(url)
    \/ \E t \in NameTokens : HandleStartTag(t)
    \/ \E t \in NameTokens : HandleEndTag(t)
    \/ \E t \in NameTokens : HandleData(t)
    \/ ReturnProduct

SpecName == InitBoth /\ [][NextName]_vars

NextDescription ==
    \/ \E url \in PageUrls : NewParse(url)
    \/ \E t \in DescriptionTokens : HandleStartTag(t)
    \/ \E t \in DescriptionTokens : HandleEndTag(t)
    \/ \E t \in DescriptionTokens : HandleData(t)
    \/ ReturnProduct

SpecDescription == InitBoth /\ [][NextDescription]_vars

NextLinked ==
    \/ \E url \in PageUrls : NewParse(url)
    \/ \E t \in LinkedTokens : HandleStartTag(t)
    \/ \E t \in LinkedTokens : HandleEndTag(t)
    \/ \E t \in LinkedTokens : HandleData(t)
    \/ ReturnProduct

SpecLinked == InitBoth /\ [][NextLinked]_vars

NextReuse ==
    \/ \E url \in PageUrls : NewParse(url)
    \/ \E url \in PageUrls : ParseAgain(url)
    \/ \E t \in ReuseTokens : HandleStartTag(t)
    \/ \E t \in ReuseTokens : HandleEndTag(t)
    \/ \E t \in ReuseTokens : HandleData(t)
    \/ ReturnProduct

SpecReuse == InitBoth /\ [][NextReuse]_vars

NextFragile ==
    \/ \E url \in PageUrls : NewParse(url)
    \/ \E t \in FragileTokens : HandleStartTag(t)
    \/ \E t \in FragileTokens : HandleEndTag(t)
    \/ \E t \in FragileTokens : HandleData(t)
    \/ ReturnProduct

SpecFragile == InitBoth /\ [][NextFragile]_vars

NextRegions ==
    \/ \E url \in PageUrls : NewParse(url)
    \/ \E t \in RegionTokens : HandleStartTag(t)
    \/ \E t \in RegionTokens : HandleEndTag(t)
    \/ \E t \in RegionTokens : HandleData(t)
    \/ ReturnProduct

SpecRegions == InitBoth /\ [][NextRegions]_vars

----------------------------------------------------------------------------
(* Properties of ProductHTMLParser.parse on the markup of a page *)

\* parse has returned a Product
Returned == extractor.pc = "done" /\ ~extractor.out[1].raised

\* the Product that parse returned
TheProduct == extractor.out[1].product

\* C25: parse(m, u) on an instance that already parsed another markup m0,
\* also one that ended inside an unclosed region, anchor or linked-data
\* script, returns the same Product as parse(m, u) on a new instance
C25_NoStateSurvives ==
    extractor.pc = "done" => extractor.out = extractor.ref

\* the non-empty value of a field of the linked-data node that was found
LinkedField(key) ==
    IF TheProduct.json_ld = None THEN None
    ELSE Or(Get(TheProduct.json_ld[1], key), None)

\* C26: the product name is the name of the linked-data node that was found
\* when that name is non-empty, whatever the title and the meta tags are;
\* otherwise the page title text, then og:title, then twitter:title
C26_NamePrecedence ==
    Returned =>
        LET title == Or(extractor.x.title, None)
            og == Or(DictGetOpt(extractor.x.meta, "og:title"), None)
            twitter == DictGetOpt(extractor.x.meta, "twitter:title")
        IN /\ LinkedField("name") # None => TheProduct.name = LinkedField("name")
           /\ LinkedField("name") = None /\ title # None => TheProduct.name = title
           /\ LinkedField("name") = None /\ title = None /\ og # None
                  => TheProduct.name = og
           /\ LinkedField("name") = None /\ title = None /\ og = None
                  => TheProduct.name = twitter

\* a page with a linked-data name, an <h1> title and an og:title yields the
\* linked-data name
C26_Witness ==
    /\ Returned
    /\ LinkedField("name") # None
    /\ extractor.x.title # None
    /\ extractor.x.title # LinkedField("name")
    /\ TheProduct.name = LinkedField("name")

\* C27: a non-empty description captured from the description region
\* overrides the linked-data description; without a capture the linked-data
\* description is used; without either, og:description, then description
C27_DescriptionPrecedence ==
    Returned =>
        LET detail == extractor.x.detail_description
            og == Or(DictGetOpt(extractor.x.meta, "og:description"), None)
            meta == DictGetOpt(extractor.x.meta, "description")
        IN /\ detail # None => TheProduct.description = detail
           /\ detail = None /\ LinkedField("description") # None
                  => TheProduct.description = LinkedField("description")
           /\ detail = None /\ LinkedField("description") = None /\ og # None
                  => TheProduct.description = og
           /\ detail = None /\ LinkedField("description") = None /\ og = None
                  => TheProduct.description = meta

\* a page with a description region and a linked-data description yields
\* the text of the region
C27_Witness ==
    /\ Returned
    /\ LinkedField("description") # None
    /\ extractor.x.detail_description # None
    /\ extractor.x.detail_description # LinkedField("description")
    /\ TheProduct.description = extractor.x.detail_description

\* the dict nodes of the well-formed blocks from the k-th on, in document
\* order, depth first within a block
RECURSIVE NodesOf(_, _)
NodesOf(blocks, k) ==
    IF k > Len(blocks) THEN <<>>
    ELSE (IF WellFormed(blocks[k]) THEN iter_json_nodes(Loads(blocks[k][1])) ELSE <<>>)
             \o NodesOf(blocks, k + 1)

\* the first Product / ProductGroup node among the well-formed blocks
FirstNode(blocks) ==
    LET found == SelectSeq(NodesOf(blocks, 1), IsProduct)
    IN IF found = <<>> THEN None ELSE Some(found[1])

\* C28: a linked-data block that is not valid JSON is skipped: parse returns
\* a Product, and its json_ld is the first Product / ProductGroup node among
\* the well-formed blocks, before or after the malformed one
C28_MalformedBlockSkipped ==
    extractor.pc = "done" =>
        /\ ~extractor.out[1].raised
        /\ TheProduct.json_ld = FirstNode(extractor.x.json_ld_blocks)

\* a malformed block comes before the block with the Product node
C28_Witness ==
    /\ Returned
    /\ TheProduct.json_ld # None
    /\ \E i, j \in DOMAIN extractor.x.json_ld_blocks :
           /\ i < j
           /\ ~WellFormed(extractor.x.json_ld_blocks[i])
           /\ WellFormed(extractor.x.json_ld_blocks[j])
           /\ FirstNode(<<extractor.x.json_ld_blocks[j]>>) = TheProduct.json_ld

\* a Product with nothing but its url
OnlyUrl(url) ==
    [url |-> url, name |-> None, brand |-> None, description |-> None,
     image_url |-> None, rating_value |-> None, rating_count |-> None,
     categories |-> <<>>, ingredients |-> <<>>, materials |-> <<>>,
     functions |-> <<>>, highlights |-> <<>>, json_ld |-> None,
     raw_brand_links |-> {}]

\* C29: parse returns a Product for every markup, its url the url given;
\* for markup without recognizable structure the Product has only its url
C29_ParseNeverFails ==
    extractor.pc = "done" =>
        /\ ~extractor.out[1].raised
        /\ TheProduct.url = extractor.url
        /\ extractor.plain => TheProduct = OnlyUrl(extractor.url)

\* parse returns a Product with its url for markup whose linked-data types
\* are strings and whose ingredient names are strings
PlainMarkupOnlyUrl ==
    Returned =>
        /\ TheProduct.url = extractor.url
        /\ extractor.plain => TheProduct = OnlyUrl(extractor.url)

\* C30: a description, materials, function, highlight or ingredient region
\* is opened only for an element inside an open element that carries the
\* detail-page root marker
C30_RootGatesRegions == extractor.outside = {}

----------------------------------------------------------------------------
(* Properties of IncidecoderScraper.scrape: the limit and failures *)

\* a step of the run of scrape in progress
SameRun == scrape'.n = scrape.n /\ scrape.pc = "loop"

\* C33: scrape with limit = n calls save_product at most n times and fetches
\* no product page after the n-th save; urls that are skipped or whose fetch
\* or parse failed do not count toward n
C33_LimitCountsNewProducts ==
    /\ [](scrape.limit # None =>
            /\ scrape.saves <= scrape.limit[1]
            /\ scrape.count <= scrape.saves)
    /\ [][SameRun =>
            /\ (scrape.limit # None /\ scrape.saves >= scrape.limit[1]
                    => scrape'.fetched = scrape.fetched)
            /\ (scrape'.count # scrape.count
                    => /\ scrape'.count = scrape.count + 1
                       /\ scrape'.saves = scrape.saves + 1
                       /\ scrape'.saved = scrape.saved \cup {Current}
                       /\ Current \notin scrape.saved)]_vars

\* a run with limit 1 counted its one save after a url whose fetch failed,
\* or stopped at the limit with a discovered url left
C33_Witness ==
    /\ scrape.limit = Some(1)
    /\ scrape.count = 1
    /\ scrape.pc = "done"
    /\ \/ Len(scrape.fetched) = 2
       \/ scrape.pos <= Len(scrape.urls)

\* the step in which fetch_product raised for the current url: the url was
\* fetched and save_product was not called
FetchFailedStep ==
    /\ InLoop
    /\ SameRun
    /\ scrape'.fetched = Append(scrape.fetched, Current)
    /\ scrape'.saves = scrape.saves

\* C34: a fetch or parse failure for one url does not abort the run: nothing
\* is saved for the url, the store is unchanged (has_product as before), and
\* the run goes on with the next discovered url, so a run without limit
\* fetches every url that it does not skip
C34_FailureSkipsOnlyThatUrl ==
    /\ [][FetchFailedStep =>
            /\ stores' = stores
            /\ saveCalled' = saveCalled
            /\ has_product(stores'[CHOOSE b \in Driven : TRUE], Current)
                   = has_product(TheStore, Current)
            /\ scrape'.pc = "loop"
            /\ scrape'.pos = scrape.pos + 1
            /\ scrape'.count = scrape.count]_vars
    /\ [](scrape.pc = "done" /\ scrape.limit = None /\ ~scrape.resume
            => Range(scrape.fetched) = Range(scrape.urls))

\* the fetch of the first url failed and the second url was saved
C34_Witness ==
    /\ scrape.pc = "done"
    /\ Len(scrape.urls) = 2
    /\ scrape.fetched = scrape.urls
    /\ scrape.saved = {scrape.urls[2]}
    /\ ~has_product(TheStore, scrape.urls[1])

\* the step in which store.save_product raised for the current url
SaveFailedStep ==
    /\ InLoop
    /\ SameRun
    /\ scrape'.saves = scrape.saves + 1
    /\ \E b \in Driven : last'.raised[b]

\* C35: a failure raised by store.save_product leaves scrape: no later url
\* is fetched or saved in that run, and has_product does not report the
\* failed url as done afterwards (unless it was done before)
C35_SaveFailurePropagates ==
    /\ [][SaveFailedStep =>
            /\ scrape'.pc = "raised"
            /\ has_product(stores'[CHOOSE b \in Driven : TRUE], Current)
                   => has_product(TheStore, Current)]_vars
    /\ [][scrape.pc = "raised" =>
            /\ scrape'.fetched = scrape.fetched
            /\ saveCalled' = saveCalled]_vars

\* the failure leaves scrape and ends the run
SaveFailureEndsRun ==
    /\ [][SaveFailedStep => scrape'.pc = "raised"]_vars
    /\ [][scrape.pc = "raised" =>
            /\ scrape'.fetched = scrape.fetched
            /\ saveCalled' = saveCalled]_vars

----------------------------------------------------------------------------
(* The brand queue: reset_brand_processing, mark_brand_processed and       *)
(* iter_pending_brands over two brands                                     *)

BrandBatches == SeqsUpTo(BrandNames \X BrandUrls, MaxBatch)

NextBrandQueue ==
    \/ \E brands \in BrandBatches, ts \in ApiTimestamps : AddBrands(brands, ts)
    \/ ResetBrandProcessing
    \/ \E brand_id \in 1 .. Cardinality(BrandUrls), ts \in ApiTimestamps :
           MarkBrandProcessed(brand_id, ts)

SpecBrandQueue == InitBoth /\ [][NextBrandQueue]_vars

\* every brand of the store as iter_pending_brands yields one, in id order
AllBrands(db) ==
    [i \in DOMAIN db.brands |-> <<db.brands[i].id, db.brands[i].name, db.brands[i].url>>]

\* the ids that iter_pending_brands yields
PendingIds(db) == {row[1] : row \in Range(iter_pending_brands(db))}

\* C37: after reset_brand_processing every brand of the store, also one
\* that mark_brand_processed had marked, is yielded by iter_pending_brands,
\* in id order, and a brand stays yielded until mark_brand_processed marks
\* it again
C37_ResetMakesBrandsPending ==
    /\ [](last.op = "reset_brand_processing" =>
            \A b \in Driven :
                /\ iter_pending_brands(stores[b]) = AllBrands(stores[b])
                /\ \A i, j \in DOMAIN stores[b].brands :
                       i < j => stores[b].brands[i].id < stores[b].brands[j].id)
    /\ [][\A b \in Driven :
            /\ PendingIds(stores[b]) \ PendingIds(stores'[b]) # {}
                   => last'.op = "mark_brand_processed"
            /\ last'.op = "reset_brand_processing"
                   => /\ Len(stores'[b].brands) = Len(stores[b].brands)
                      /\ PendingIds(stores'[b]) = {r.id : r \in Range(stores[b].brands)}]_vars

\* a reset made with two brands stored, one of them marked processed before
C37_Witness ==
    /\ last.op = "reset_brand_processing"
    /\ last.arg = {1}
    /\ \A b \in Driven :
           /\ Len(stores[b].brands) = 2
           /\ Len(iter_pending_brands(stores[b])) = 2

----------------------------------------------------------------------------
(* A product row queued by add_products_for_brand and completed by         *)
(* save_product at a later time                                            *)

QueueTimestamps == {1}
SaveTimestamps == {2}

NextQueue ==
    \/ \E brands \in ApiBrandBatches, ts \in QueueTimestamps : AddBrands(brands, ts)
    \/ \E brand_id \in ApiBrandIds, products \in ApiProductBatches, ts \in QueueTimestamps :
           AddProductsForBrand(brand_id, products, ts)
    \/ \E product \in ApiProducts, ts \in SaveTimestamps : SaveProduct(product, ts)

SpecQueue == InitBoth /\ [][NextQueue]_vars

\* the url has a row that add_products_for_brand inserted and no save has
\* completed
OnlyQueued(db, url) ==
    /\ ProductIdByUrl(db, url) # 0
    /\ db.products[ProductIdByUrl(db, url)].scraped_at = None

\* the urls that iter_products_to_scrape(resume=True) yields
PendingUrls(backend, db) ==
    {row[2] : row \in Range(iter_products_to_scrape(backend, db, TRUE))}

\* C39: save_product for a url that was only queued by
\* add_products_for_brand completes that row: afterwards the url has one row,
\* has_product is true, iter_products_to_scrape(resume=True) no longer
\* yields it, and brand_id and discovered_at of the row are unchanged
C39_SaveCompletesQueuedRow ==
    [][\A b \in Driven :
          (/\ last'.op = "save_product"
           /\ ~last'.raised[b]
           /\ OnlyQueued(stores[b], last'.arg.url))
          => LET url == last'.arg.url
                 id == ProductIdByUrl(stores[b], url)
             IN /\ Cardinality({i \in DOMAIN stores'[b].products :
                                    stores'[b].products[i].url = url}) = 1
                /\ Len(stores'[b].products) = Len(stores[b].products)
                /\ has_product(stores'[b], url)
                /\ url \in PendingUrls(b, stores[b])
                /\ url \notin PendingUrls(b, stores'[b])
                /\ stores'[b].products[id].url = url
                /\ stores'[b].products[id].brand_id = stores[b].products[id].brand_id
                /\ stores'[b].products[id].discovered_at
                       = stores[b].products[id].discovered_at]_vars

\* a queued url was saved at a later time than it was discovered
C39_Witness ==
    /\ last.op = "save_product"
    /\ last.arg.url \in queued
    /\ \A b \in Driven :
           /\ ~last.raised[b]
           /\ LET row == stores[b].products[ProductIdByUrl(stores[b], last.arg.url)]
              IN /\ row.brand_id = Some(1)
                 /\ row.discovered_at # row.scraped_at
                 /\ Len(stores[b].products) = 2

----------------------------------------------------------------------------
(* The deduplication pass and the urls of the registered mentions *)

\* C40: the deduplication pass loses no ingredient url: for every registered
\* mention with a non-empty url, an entry of the returned ingredients list
\* carries that url (compared case-insensitively)
C40_NoUrlLost ==
    parser.pc = "done" =>
        \A i \in DOMAIN parser.ingredients :
            parser.ingredients[i].value.url # EmptyStr
                => \E j \in DOMAIN parser.product :
                       Lower(parser.product[j].url)
                           = Lower(parser.ingredients[i].value.url)

----------------------------------------------------------------------------
(* The regions and the elements that opened them *)

\* the regions that the extractor holds open
OpenRegions(x) ==
    {r \in {"root", "description", "materials", "function", "highlight", "ingredient"} :
        \/ r = "root" /\ x.detailpage_depth > 0
        \/ r = "description" /\ x.description_depth > 0
        \/ r = "materials" /\ x.materials_depth > 0
        \/ r = "function" /\ x.function_context_stack # <<>>
        \/ r = "highlight" /\ x.highlight_context_stack # <<>>
        \/ r = "ingredient" /\ x.ingredient_context_stack # <<>>}

\* the regions whose opening element is still open in the markup
ElementRegions(open) ==
    UNION {open[k].regions \cup (IF open[k].root THEN {"root"} ELSE {}) :
              k \in DOMAIN open}

\* C31: a region closes exactly on the end tag that balances its opening
\* start tag, also when the region holds void elements such as <br>: at every
\* point of the markup the regions the extractor holds open are those whose
\* opening element is still open
C31_RegionsCloseOnBalancingTag ==
    extractor.pc = "feed" =>
        OpenRegions(extractor.x) = ElementRegions(extractor.open)

----------------------------------------------------------------------------
(* The text of function and highlight blocks *)

FunctionBlock == StartTag("div", {FunctionMarker}, {})
HighlightBlock == StartTag("div", {HighlightMarker}, {})

BlockTokens ==
    {FunctionBlock, HighlightBlock, StartTag("h3", {}, {}), StartTag("li", {}, {}),
     EndTag("div"), EndTag("h3"), EndTag("li"), Data(Chars("T"))}

\* the end tag t closes the innermost open element
Balances(t) ==
    /\ extractor.open # <<>>
    /\ extractor.open[Len(extractor.open)].tag = t.tag

\* properly nested markup of blocks, headings and list items
NextBlocks ==
    \/ \E url \in PageUrls : NewParse(url)
    \/ \E t \in BlockTokens : HandleStartTag(t)
    \/ \E t \in BlockTokens : Balances(t) /\ HandleEndTag(t)
    \/ \E t \in BlockTokens : HandleData(t)
    \/ ReturnProduct

SpecBlocks == InitBoth /\ [][NextBlocks]_vars

\* the innermost open element that opened a region of the kind
Innermost(open, kind) ==
    CHOOSE k \in DOMAIN open :
        /\ kind \in open[k].regions
        /\ \A j \in DOMAIN open : kind \in open[j].regions => j <= k

\* a step of feed that hands over a piece of text
TextStep ==
    /\ extractor.pc = "feed" /\ extractor'.pc = "feed"
    /\ extractor'.n = extractor.n + 1
    /\ extractor'.open = extractor.open

\* the text went to one buffer of the innermost block of the kind: that of
\* the title inside a heading of the block, else that of the list item
\* inside a list item of the block, else that of the body; the enclosing
\* blocks are as they were
Routed(kind, stack, after) ==
    LET open == extractor.open
        k == Innermost(open, kind)
        heading == \E j \in k..Len(open) : open[j].tag \in Headings
        item == \E j \in (k + 1)..Len(open) : open[j].tag = "li"
        c == stack[Len(stack)]
        d == after[Len(after)]
        chunk == Chars("T")
    IN /\ \E j \in DOMAIN open : kind \in open[j].regions
       /\ Len(after) = Len(stack)
       /\ \A i \in 1..(Len(stack) - 1) : after[i] = stack[i]
       /\ d.title_buffer = IF heading THEN Append(c.title_buffer, chunk)
                           ELSE c.title_buffer
       /\ d.current_item = IF ~heading /\ item THEN Append(c.current_item, chunk)
                           ELSE c.current_item
       /\ d.body_buffer = IF ~heading /\ ~item THEN Append(c.body_buffer, chunk)
                          ELSE c.body_buffer

----------------------------------------------------------------------------
(* IncidecoderScraper and the image of a product *)

\* the keyword arguments of IncidecoderScraper.__init__
InitKeywords == {"http_client", "base_url"}

\* the keyword arguments a caller may pass
Keywords == InitKeywords \cup {"image_dir"}

\* the attributes of an IncidecoderScraper that can be called
ScraperMethods ==
    {"discover_product_urls", "_discover_from_sitemaps", "_discover_from_brands",
     "_discover_products_for_brand", "fetch_product", "scrape"}

\* the downloads asked of one scraper
MaxDownloads == 2

ImageUrls == {"https://cdn.example.com/path/to/image.png",
              "https://cdn.example.com/other.jpg"}

ImageProducts == [url : Urls, image_url : Opt(ImageUrls)]

\* IncidecoderScraper(**keywords): a keyword that __init__ does not have
\* raises TypeError and there is no scraper
NewScraper(keywords) ==
    /\ images' = [pc |-> IF keywords \subseteq InitKeywords THEN "ready" ELSE "raised",
                  keywords |-> keywords, calls |-> <<>>, files |-> {},
                  requests |-> <<>>]
    /\ UNCHANGED <<stores, last, queued, saveCalled, marked, scrape, parser, discover, http, extractor>>

\* scraper._download_product_image(product): the attribute lookup raises
\* AttributeError, nothing is fetched and nothing is written
DownloadProductImage(product) ==
    /\ images.pc = "ready"
    /\ Len(images.calls) < MaxDownloads
    /\ "_download_product_image" \notin ScraperMethods
    /\ images' = [images EXCEPT
                     !.calls = Append(@, [product |-> product, raised |-> TRUE,
                                          path |-> None])]
    /\ UNCHANGED <<stores, last, queued, saveCalled, marked, scrape, parser, discover, http, extractor>>

NextImages ==
    \/ \E keywords \in SUBSET Keywords : NewScraper(keywords)
    \/ \E product \in ImageProducts : DownloadProductImage(product)

SpecImages == Init /\ [][NextImages]_vars

\* C36: the image download is idempotent per product: the second of two
\* calls for the same product and image url returns the path of the file
\* that the first call wrote, one file is written and one fetch_bytes call
\* is made in total
C36_ImageDownloadIdempotent ==
    \A i, j \in DOMAIN images.calls :
        (/\ i < j
         /\ images.calls[i].product = images.calls[j].product
         /\ images.calls[i].product.image_url # None)
            => /\ ~images.calls[i].raised /\ ~images.calls[j].raised
               /\ images.calls[i].path # None
               /\ images.calls[j].path = images.calls[i].path
               /\ Cardinality({f \in images.files : f = images.calls[i].path[1]}) = 1
               /\ Len(SelectSeq(images.requests,
                                LAMBDA u : u = images.calls[i].product.image_url[1])) = 1

----------------------------------------------------------------------------
(* The tooltip of an ingredient block *)

IngredientLinked ==
    StartTag("div", {IngredientMarker},
             {<<"data-name", "Water">>, <<"data-tooltip-link", "/about/tooltips">>})
TooltipSpan == StartTag("span", {<<"tooltip">>}, {})
TooltipAnchor == StartTag("a", {}, {<<"href", "/function/humectant">>})

TooltipTokens ==
    {IngredientDiv, IngredientLinked, TooltipSpan, TooltipAnchor,
     StartTag("strong", {}, {}), EndTag("div"), EndTag("span"), EndTag("a"),
     EndTag("strong"), Data(Chars("T"))}

\* properly nested markup of ingredient blocks, tooltips, anchors and titles
NextTooltip ==
    \/ \E url \in PageUrls : NewParse(url)
    \/ \E t \in TooltipTokens : HandleStartTag(t)
    \/ \E t \in TooltipTokens : Balances(t) /\ HandleEndTag(t)
    \/ \E t \in TooltipTokens : HandleData(t)
    \/ ReturnProduct

SpecTooltip == InitBoth /\ [][NextTooltip]_vars

\* the absolute url of the anchor of the tooltip
AbsoluteHref == Str("https://incidecoder.com/function/humectant", FALSE, FALSE)

\* an ingredient block is open in the markup
InBlock(open) == \E k \in DOMAIN open : "ingredient" \in open[k].regions

\* the elements of the innermost open ingredient block, from its outermost
\* tooltip on
TooltipElements(open) ==
    LET i == Innermost(open, "ingredient")
    IN IF \E k \in (i + 1)..Len(open) : open[k].tag = "span"
       THEN LET first == CHOOSE k \in (i + 1)..Len(open) :
                            /\ open[k].tag = "span"
                            /\ \A j \in (i + 1)..(k - 1) : open[j].tag # "span"
            IN first..Len(open)
       ELSE {}

InTooltip(open) == InBlock(open) /\ TooltipElements(open) # {}

\* a step of feed inside the markup of a page
FeedStep ==
    /\ extractor.pc = "feed" /\ extractor'.pc = "feed"
    /\ extractor'.n = extractor.n + 1

TopContext(x) == x.ingredient_context_stack[Len(x.ingredient_context_stack)]

\* text inside the tooltip goes to its title inside a title element, else to
\* its body, and nowhere inside an anchor of the tooltip
TooltipTextRouted ==
    (TextStep /\ InTooltip(extractor.open)) =>
        LET open == extractor.open
            c == TopContext(extractor.x)
            d == TopContext(extractor'.x)
            anchored == \E j \in TooltipElements(open) : open[j].tag = "a"
            titled == \E j \in TooltipElements(open) : open[j].tag = "strong"
            chunk == Chars("T")
        IN /\ d.tooltip_title_parts =
                  IF ~anchored /\ titled THEN Append(c.tooltip_title_parts, chunk)
                  ELSE c.tooltip_title_parts
           /\ d.tooltip_body_parts =
                  IF ~anchored /\ ~titled THEN Append(c.tooltip_body_parts, chunk)
                  ELSE c.tooltip_body_parts

\* the href of an anchor that starts inside the tooltip is recorded as an
\* absolute url
TooltipHrefRecorded ==
    (/\ FeedStep /\ InTooltip(extractor.open)
     /\ Len(extractor'.open) = Len(extractor.open) + 1
     /\ extractor'.open[Len(extractor'.open)].tag = "a") =>
        TopContext(extractor'.x).tooltip_links
            = Append(TopContext(extractor.x).tooltip_links, AbsoluteHref)

\* the end tag of the tooltip: what it captured is in the extra of the
\* ingredient under the key of the block
TooltipRegistered ==
    (/\ FeedStep /\ InTooltip(extractor.open)
     /\ TooltipElements(extractor.open) = {Len(extractor.open)}
     /\ Len(extractor'.open) = Len(extractor.open) - 1) =>
        LET c == TopContext(extractor.x)
            m == extractor'.x.ingredients
            i == Slot(m, c.key)
            captured == Words(c.tooltip_title_parts) # <<>>
                            \/ Words(c.tooltip_body_parts) # <<>>
                            \/ c.tooltip_links # <<>>
        IN captured =>
              /\ c.key # EmptyStr /\ i # 0
              /\ Words(c.tooltip_title_parts) # <<>> =>
                    <<"tooltip_title", normalize_text(c.tooltip_title_parts)>>
                        \in m[i].value.extra
              /\ Words(c.tooltip_body_parts) # <<>> =>
                    <<"tooltip_text", normalize_text(c.tooltip_body_parts)>>
                        \in m[i].value.extra
              /\ c.tooltip_links # <<>> =>
                    /\ "tooltip_links" \in DictKeys(m[i].value.extra)
                    /\ Range(c.tooltip_links)
                          \subseteq DictGet(m[i].value.extra, "tooltip_links").links

\* the links in the extra of an ingredient stay there while the page is fed
TooltipLinksKept ==
    FeedStep =>
        \A i \in DOMAIN extractor.x.ingredients :
            LET before == extractor.x.ingredients[i].value.extra
                m == extractor'.x.ingredients
            IN "tooltip_links" \in DictKeys(before) =>
                  /\ i \in DOMAIN m
                  /\ m[i].key = extractor.x.ingredients[i].key
                  /\ "tooltip_links" \in DictKeys(m[i].value.extra)
                  /\ DictGet(before, "tooltip_links").links
                        \subseteq DictGet(m[i].value.extra, "tooltip_links").links

\* while the tooltip is open the text outside its anchors and the hrefs of
\* its anchors are captured, and its end tag puts them into the extra of the
\* ingredient of the block
TooltipCaptured ==
    [][TooltipTextRouted /\ TooltipHrefRecorded /\ TooltipRegistered]_vars

\* C38: in the tooltip of an ingredient block the text inside an anchor is
\* left out of title and body and the href of the anchor is recorded as an
\* absolute url in tooltip_links; the captured title, body and links end up
\* in the extra of the ingredient under the key of the block
C38_TooltipEndsUpInExtra ==
    [][/\ TooltipTextRouted /\ TooltipHrefRecorded /\ TooltipRegistered
       /\ TooltipLinksKept]_vars

====
